---- MODULE Spec2Model ----
(***************************************************************************)
(* Linnworks -> Shopify reconciliation scripts (Rajubca/shop_linn).        *)
(*                                                                         *)
(* Three batch jobs are modelled as sequential state machines over a       *)
(* shared picture of the two remote systems:                               *)
(*   "title"  LinnworksToShopifyDescriptions/                              *)
(*            shopify_title_fill_from_linnworks.py   (run_process)         *)
(*   "desc"   LinnworksToShopifyDescriptions/                              *)
(*            linn_to_shopify_desc_updated.py        (--mode process)      *)
(*   "trees"  AddProductsLinnworksToFrono/                                 *)
(*            shopify_upload_christmas_trees.py      (main)                *)
(*                                                                         *)
(* Text values are sequences of one-character strings so that strip() and  *)
(* slicing are computed, not assumed.  Every outbound HTTP call is         *)
(* appended to `calls`; the remote answers (success, error status, a write *)
(* that is acknowledged but not visible on re-read) are chosen by \E.      *)
(***************************************************************************)
EXTENDS Integers, Sequences, FiniteSets, TLC

\* ------------------------------------------------------------------ bounds
MaxKeys   == 2      \* number of SKUs in the input / products in the shop
MaxFaults == 1      \* remote failures injected in one behaviour
MaxCells  == 2      \* cells in the key column of a resolution script's CSV

\* ------------------------------------------------- configuration constants
TITLE_MAX   == 2    \* TITLE_MAX env (default 255), scaled to the text domain
FLUSH_EVERY == 2    \* FLUSH_EVERY env (default 50), scaled to MaxKeys
BATCH_SIZE  == 1    \* chunked(skus, 80), scaled to MaxKeys

CHANNEL_SOURCE    == "EBAY"
CHANNEL_SUBSOURCE == "EBAY1_UK"

\* ------------------------------------------------------------ text helpers
Empty == <<>>
WS    == " "
NL    == "\n"

IsSpace(c) == c \in {WS, NL}

RECURSIVE LStrip(_)
LStrip(s) == IF s # <<>> /\ IsSpace(Head(s)) THEN LStrip(Tail(s)) ELSE s

RECURSIVE RStrip(_)
RStrip(s) == IF s # <<>> /\ IsSpace(s[Len(s)])
             THEN RStrip(SubSeq(s, 1, Len(s) - 1)) ELSE s

\* str.strip()
Strip(s) == RStrip(LStrip(s))

Min(a, b) == IF a < b THEN a ELSE b

\* safe_title: strip, then cut to TITLE_MAX characters
safe_title(s) == SubSeq(Strip(s), 1, Min(Len(Strip(s)), TITLE_MAX))

\* upper() on the channel source names that occur
Upper(x) == CASE x = "ebay"   -> "EBAY"
              [] x = "amazon" -> "AMAZON"
              [] OTHER        -> x

\* ------------------------------------------------------------------ domain
SkuNames == <<"S1", "S2", "S3", "S4">>
Skus     == { SkuNames[k] : k \in 1..MaxKeys }
Products == 1..(MaxKeys + 1)
\* a product whose variants carry no SKU, when the shop has one
BareProduct == MaxKeys + 1

RECURSIVE KeyIndexFrom(_, _)
KeyIndexFrom(sku, k) == IF SkuNames[k] = sku THEN k ELSE KeyIndexFrom(sku, k + 1)
KeyIndex(sku) == KeyIndexFrom(sku, 1)

\* What Linnworks holds for a SKU:
\*   "unknown"  GetStockItemIdsBySKU returns no item for it
\*   "item"     an item with a title and a description
\*   "none"     an item without any title or description
LwProfiles == {"unknown", "item", "none"}

Scripts == {"title", "desc", "trees", "sync"}

NoIds    == [ s \in Skus |-> 0 ]
NoText   == [ s \in Skus |-> << >> ]
NoImages == [ p \in Products |-> {} ]

\* no helper call in progress
NoHttp == [ fn |-> "none", phase |-> "idle", attempt |-> 0, sent |-> << >>,
            answers |-> << >>, sleeps |-> << >>, outcome |-> "" ]

VARIABLES
  script,            \* which job this behaviour runs
  cfg,               \* [dry, force, force_env, variant, mode]: DRY_RUN or --dry-run /
                     \* --force / FORCE_UPDATE / --variant-option1 / --mode
  world,             \* read-only remote data: [lw: Skus -> LwProfiles,
                     \*   prod: Skus -> 0 or product id, bare: BOOLEAN]
  shop,              \* mutable Shopify data: [title, body: Products -> text,
                     \*   option1, price: Skus -> text, created: Skus -> 0 or product id,
                     \*   images: Products -> set of names, coll: BOOLEAN,
                     \*   collects: set of products]
  run,               \* "first" or "second" invocation of the job
  pc,                \* position of the job
  i,                 \* index of the next input row
  budget,            \* remote failures the environment may still inject
  calls,             \* every outbound HTTP call, in order
  skus,              \* title: unique SKU list read from the workbook
  sku_to_id,         \* SKU -> StockItemId mapping built by the resolve stage (0: absent)
  updated_products,  \* title: products written in this run (product mode)
  buffer,            \* title: tracker rows not yet flushed
  tracker,           \* rows persisted in the tracker workbook (kept across runs)
  csvlog,            \* title: rows persisted in the CSV change log
  rows,              \* desc: the in-memory row list handed from stage to stage;
                     \* trees: the rows loaded from the CSV
  http               \* the HTTP helper call in progress: its requests, the answers
                     \* it got and the sleeps it made

vars == << script, cfg, world, shop, run, pc, i, budget, calls, skus, sku_to_id,
           updated_products, buffer, tracker, csvlog, rows, http >>

\* state owned by one job only
titleState == << skus, updated_products, buffer, csvlog >>
descState  == << rows >>

\* ------------------------------------------------------- remote: Linnworks
StockItemId(sku) == 100 + KeyIndex(sku)

\* Items of the GetStockItemIdsBySKU answer for a batch
LwItems(batch) ==
  { [SKU |-> batch[n], StockItemId |-> StockItemId(batch[n])] :
      n \in { m \in 1..Len(batch) : world.lw[batch[m]] # "unknown" } }

\* Items with an odd index carry their title on the configured channel pair;
\* items with an even index have only a blank row for the pair and a base title
OnChannel(sku) == KeyIndex(sku) % 2 = 1

\* GetInventoryItemTitles answer: rows of {Source, SubSource, Title}
LwTitleRows(sku) ==
  CASE world.lw[sku] = "item" /\ OnChannel(sku) ->
         << [Source |-> "AMAZON", SubSource |-> "AMZ_UK",          Title |-> <<"z">>],
            [Source |-> "ebay",   SubSource |-> CHANNEL_SUBSOURCE, Title |-> <<WS, "a">>] >>
    [] world.lw[sku] = "item" /\ ~OnChannel(sku) ->
         << [Source |-> "EBAY",   SubSource |-> "EBAY2_DE",        Title |-> <<"z">>],
            [Source |-> "EBAY",   SubSource |-> CHANNEL_SUBSOURCE, Title |-> <<WS>>] >>
    [] OTHER -> << >>

\* GetInventoryItemById answer: the base Title
LwCoreTitle(sku) ==
  IF world.lw[sku] = "item" /\ ~OnChannel(sku) THEN <<"b", WS>> ELSE Empty

\* lw_pick_channel_title: first row of the pair with a non-blank title, stripped
RECURSIVE lw_pick_channel_title(_, _, _)
lw_pick_channel_title(titles, source, subsource) ==
  IF titles = << >> THEN Empty
  ELSE LET t == Head(titles) IN
       IF Upper(t.Source) = Upper(source) /\ t.SubSource = subsource
          /\ Strip(t.Title) # Empty
       THEN Strip(t.Title)
       ELSE lw_pick_channel_title(Tail(titles), source, subsource)

\* --------------------------------------------------------- remote: Shopify
VariantId(sku) == 10 + KeyIndex(sku)

\* find_variant_by_sku: (product_id, variant_id) of the variant whose SKU is
\* exactly `sku`, <<0, 0>> when the shop has none
find_variant_by_sku(sku) ==
  IF world.prod[sku] = 0 THEN <<0, 0>> ELSE <<world.prod[sku], VariantId(sku)>>

Call(op, key, target, field, value) ==
  [op |-> op, key |-> key, target |-> target, field |-> field, value |-> value,
   run |-> run]

\* Requests that create or change a Shopify object
MutatingOps == {"SH_PUT_PRODUCT", "SH_PUT_VARIANT", "SH_POST_PRODUCT",
                "SH_POST_COLLECTION", "SH_POST_COLLECT", "SH_POST_IMAGE"}

\* ---------------------------------------------------------------- helpers
\* chunked(seq, n): consecutive slices of at most n elements
chunked(seq, n) ==
  [ b \in 1..((Len(seq) + n - 1) \div n) |->
      SubSeq(seq, (b - 1) * n + 1, Min(b * n, Len(seq))) ]

\* append_rows after buffer.append(row): flush when FLUSH_EVERY rows are waiting
Flushes(buf) == Len(buf) >= FLUSH_EVERY

BoolN(b) == IF b THEN 1 ELSE 0

\* Remote answers to the calls made for one key (TRUE: the call fails)
KeyEnv == [ lw : BOOLEAN, core : BOOLEAN, find : BOOLEAN, get : BOOLEAN,
            put : {"ok", "err", "stale"}, get2 : BOOLEAN ]

\* Number of failing answers in an environment choice
EnvFaults(e) == BoolN(e.lw) + BoolN(e.core) + BoolN(e.find) + BoolN(e.get)
                + BoolN(e.put # "ok") + BoolN(e.get2)

\* The store after an acknowledged PUT: the value is stored, or ("stale") the
\* acknowledgement is not followed by a visible change
PutTitle(pid, value, how) ==
  IF how = "ok" THEN [shop EXCEPT !.title[pid] = value] ELSE shop

PutOption1(sku, value, how) ==
  IF how = "ok" THEN [shop EXCEPT !.option1[sku] = value] ELSE shop

PutBody(pid, value, how) ==
  IF how = "ok" THEN [shop EXCEPT !.body[pid] = value] ELSE shop

\* ==================================================== title fill (run_process)
\* Outcome of one loop iteration: the tracker row, the calls made, the store
\* and the dedupe set afterwards, the failures consumed, and whether the CSV
\* change log got a row.
Outcome(status, pid, old, new, cs, sh, upd, nf, csv) ==
  [ status |-> status, pid |-> pid, old |-> old, new |-> new, cs |-> cs,
    shop |-> sh, upd |-> upd, nf |-> nf, csv |-> csv ]

\* lines 522-552: --variant-option1 mode
TF_VariantMode(sku, pid, old, target, cs, nf, e) ==
  IF cfg.dry
  THEN Outcome("READY", pid, old, target, cs, shop, updated_products, nf, TRUE)
  ELSE
    LET cs1 == Append(cs, Call("SH_PUT_VARIANT", sku, VariantId(sku), "option1", target))
    IN
    IF e.put = "err"
    THEN Outcome("ERROR", pid, old, target, cs1, shop, updated_products, nf + 1, FALSE)
    ELSE
      LET sh2 == PutOption1(sku, target, e.put)
          nf2 == nf + BoolN(e.put = "stale")
          cs2 == Append(cs1, Call("SH_GET_VARIANT", sku, VariantId(sku), "option1", Empty))
      IN
      IF e.get2
      THEN Outcome("ERROR", pid, old, target, cs2, sh2, updated_products, nf2 + 1, FALSE)
      ELSE IF Strip(sh2.option1[sku]) = target
      THEN Outcome("UPDATED", pid, old, target, cs2, sh2, updated_products, nf2, TRUE)
      ELSE Outcome("VERIFY_FAIL", pid, old, target, cs2, sh2, updated_products, nf2, TRUE)

\* the dedupe set after a verified product write (line 576)
TF_MarkUpdated(pid) == updated_products \cup {pid}

\* line 559: the already-matches test of product mode
TF_AlreadyMatches(old, target) ==
  (~cfg.force_env /\ ~cfg.force) /\ old # Empty /\ old = target

\* lines 554-592: product-title mode
TF_ProductMode(sku, pid, old, target, cs, nf, e) ==
  IF TF_AlreadyMatches(old, target)
  THEN Outcome("SKIPPED", pid, old, target, cs, shop, updated_products, nf, TRUE)
  ELSE IF cfg.dry
  THEN Outcome("READY", pid, old, target, cs, shop, updated_products, nf, TRUE)
  ELSE IF pid \in updated_products
  THEN Outcome("SKIPPED_DUPLICATE_PRODUCT", pid, old, target, cs, shop,
               updated_products, nf, TRUE)
  ELSE
    LET cs1 == Append(cs, Call("SH_PUT_PRODUCT", sku, pid, "title", target))
    IN
    IF e.put = "err"
    THEN Outcome("ERROR", pid, old, target, cs1, shop, updated_products, nf + 1, FALSE)
    ELSE
      LET sh2 == PutTitle(pid, target, e.put)
          nf2 == nf + BoolN(e.put = "stale")
          cs2 == Append(cs1, Call("SH_GET_PRODUCT", sku, pid, "title", Empty))
      IN
      IF e.get2
      THEN Outcome("ERROR", pid, old, target, cs2, sh2, updated_products, nf2 + 1, FALSE)
      ELSE IF Strip(sh2.title[pid]) = target
      THEN Outcome("UPDATED", pid, old, target, cs2, sh2, TF_MarkUpdated(pid), nf2, TRUE)
      ELSE Outcome("VERIFY_FAIL", pid, old, target, cs2, sh2, updated_products, nf2, TRUE)

\* lines 511-598: read the product, compare, write, read back
TF_CompareUpdate(sku, pid, ch_title, cs, nf, e) ==
  LET cs1 == Append(cs, Call("SH_GET_PRODUCT", sku, pid, "title", Empty)) IN
  IF e.get
  THEN Outcome("ERROR", pid, Empty, Empty, cs1, shop, updated_products, nf + 1, FALSE)
  ELSE
    LET old    == Strip(shop.title[pid])
        target == safe_title(ch_title)
    IN
    IF Strip(target) = Empty
    THEN Outcome("ERROR", pid, old, target, cs1, shop, updated_products, nf, FALSE)
    ELSE IF cfg.variant
    THEN TF_VariantMode(sku, pid, old, target, cs1, nf, e)
    ELSE TF_ProductMode(sku, pid, old, target, cs1, nf, e)

\* lines 482-509: resolve the product in Shopify
TF_FindProduct(sku, ch_title, cs, nf, e) ==
  LET cs1 == Append(cs, Call("SH_FIND", sku, 0, "variants", Empty)) IN
  IF e.find
  THEN Outcome("ERROR", 0, Empty, Empty, cs1, shop, updated_products, nf + 1, FALSE)
  ELSE
    LET pv == find_variant_by_sku(sku) IN
    IF pv[1] = 0
    THEN Outcome("SKIPPED", 0, Empty, Empty, cs1, shop, updated_products, nf, FALSE)
    ELSE TF_CompareUpdate(sku, pv[1], ch_title, cs1, nf, e)

\* lines 449-480: channel title, falling back to the base item title
TF_FetchTitle(sku, sid, e) ==
  LET cs1 == << Call("LW_TITLES", sku, sid, "title", Empty) >> IN
  IF e.lw
  THEN Outcome("ERROR", 0, Empty, Empty, cs1, shop, updated_products, 1, FALSE)
  ELSE
    LET ch == lw_pick_channel_title(LwTitleRows(sku), CHANNEL_SOURCE, CHANNEL_SUBSOURCE)
    IN
    IF ch # Empty
    THEN TF_FindProduct(sku, ch, cs1, 0, e)
    ELSE
      LET cs2  == Append(cs1, Call("LW_CORE", sku, sid, "title", Empty))
          base == IF e.core THEN Empty ELSE Strip(LwCoreTitle(sku))
          nf   == BoolN(e.core)
      IN
      IF base = Empty
      THEN Outcome("MISSING_TITLE", 0, Empty, Empty, cs2, shop, updated_products, nf, FALSE)
      ELSE TF_FindProduct(sku, base, cs2, nf, e)

\* the loop body without the NOT_FOUND branch of lines 440-447
TF_BodyUnguarded(sku, e) == TF_FetchTitle(sku, sku_to_id[sku], e)

\* lines 426-604: the loop body for one SKU
TF_Body(sku, e) ==
  LET sid == sku_to_id[sku] IN
  IF sid = 0
  THEN Outcome("NOT_FOUND", 0, Empty, Empty, << >>, shop, updated_products, 0, FALSE)
  ELSE TF_FetchTitle(sku, sid, e)

\* to_row: the tracker row of an outcome
to_row(sku, o) ==
  [ SKU |-> sku, ProductID |-> o.pid, OldTitle |-> o.old, NewTitle |-> o.new,
    Status |-> o.status, DryRun |-> cfg.dry, Run |-> run ]

\* lines 383-405: read the input, open the outputs, authenticate to Linnworks
TF_Start ==
  /\ script = "title" /\ pc = "start"
  /\ \E fail \in BOOLEAN :
       /\ BoolN(fail) <= budget
       /\ budget' = budget - BoolN(fail)
       /\ calls' = Append(calls, Call("LW_AUTH", "", 0, "", Empty))
       /\ pc' = IF fail THEN "fatal" ELSE "resolve"
  /\ i' = 1
  /\ UNCHANGED << http, script, cfg, world, shop, run, skus, sku_to_id, updated_products,
                  buffer, tracker, csvlog, descState >>

\* lw_get_stock_ids_by_sku: JSON body first, form-encoded body on any failure;
\* the mapping of the answer, or "raise" when both requests fail
lw_get_stock_ids_by_sku(batch, e1, e2) ==
  LET mapping == [ s \in { it.SKU : it \in LwItems(batch) } |-> StockItemId(s) ] IN
  IF ~e1 THEN [ ok |-> TRUE, mapping |-> mapping, n |-> 1 ]
  ELSE IF ~e2 THEN [ ok |-> TRUE, mapping |-> mapping, n |-> 2 ]
  ELSE [ ok |-> FALSE, mapping |-> << >>, n |-> 2 ]

\* sku_to_id.update(mapping)
UpdateMapping(m, mapping) ==
  [ s \in DOMAIN m |-> IF s \in DOMAIN mapping THEN mapping[s] ELSE m[s] ]

ResolveCalls(batch, n) ==
  [ k \in 1..n |-> Call("LW_RESOLVE", batch[1], 0, IF k = 1 THEN "json" ELSE "form", Empty) ]

\* lines 407-418: one batch of the SKU -> StockItemId resolution; a failed batch
\* is logged and skipped
TF_ResolveBatch ==
  /\ script = "title" /\ pc = "resolve"
  /\ LET batches == chunked(skus, BATCH_SIZE) IN
     /\ i <= Len(batches)
     /\ \E e1 \in BOOLEAN, e2 \in BOOLEAN :
          LET r == lw_get_stock_ids_by_sku(batches[i], e1, e2) IN
          /\ e2 => e1
          /\ BoolN(e1) <= budget
          /\ budget' = budget - BoolN(e1)
          /\ calls' = calls \o ResolveCalls(batches[i], r.n)
          /\ sku_to_id' = IF r.ok THEN UpdateMapping(sku_to_id, r.mapping) ELSE sku_to_id
     /\ IF i = Len(batches) THEN pc' = "loop" /\ i' = 1
                            ELSE pc' = pc /\ i' = i + 1
  /\ UNCHANGED << http, script, cfg, world, shop, run, skus, updated_products, buffer,
                  tracker, csvlog, descState >>

\* lines 426-607: one iteration of the per-SKU loop, including the buffered
\* tracker append and the flush every FLUSH_EVERY rows
TF_Key ==
  /\ script = "title" /\ pc = "loop" /\ i <= Len(skus)
  /\ \E e \in { x \in KeyEnv : EnvFaults(x) <= budget } :
       LET o   == TF_Body(skus[i], e)
           buf == Append(buffer, to_row(skus[i], o))
       IN
       /\ o.nf = EnvFaults(e)
       /\ o.nf <= budget
       /\ budget' = budget - o.nf
       /\ calls' = calls \o o.cs
       /\ shop' = o.shop
       /\ updated_products' = o.upd
       /\ csvlog' = IF o.csv THEN Append(csvlog, [SKU |-> skus[i], Status |-> o.status,
                                                  Run |-> run])
                             ELSE csvlog
       /\ IF Flushes(buf)
          THEN tracker' = tracker \o buf /\ buffer' = << >>
          ELSE tracker' = tracker /\ buffer' = buf
  /\ i' = i + 1
  /\ UNCHANGED << http, script, cfg, world, run, pc, skus, sku_to_id, descState >>

\* the end of the loop without the final flush
TF_FinalFlushLost ==
  /\ script = "title" /\ pc = "loop" /\ i > Len(skus)
  /\ buffer' = << >>
  /\ pc' = "done"
  /\ UNCHANGED << http, script, cfg, world, shop, run, i, budget, calls, skus, sku_to_id,
                  updated_products, csvlog, tracker, descState >>

\* lines 609-614: final flush
TF_FinalFlush ==
  /\ script = "title" /\ pc = "loop" /\ i > Len(skus)
  /\ tracker' = tracker \o buffer
  /\ buffer' = << >>
  /\ pc' = "done"
  /\ UNCHANGED << http, script, cfg, world, shop, run, i, budget, calls, skus, sku_to_id,
                  updated_products, csvlog, descState >>

\* ================================== description updater (--mode process)
SNIPPET_LEN == 80   \* the header is looked for in the first 80 characters

\* Markup tokens; a text "looks like HTML" when it contains one of HtmlMarkers
HtmlMarkers == {"<p>", "<br>", "<ul>", "<ol>", "<div>", "<span>", "<table>"}
Tags        == HtmlMarkers \cup {"</p>", "<strong>", "</strong>"}

DescHeader == << "<p>", "<strong>", "Description:", "</strong>", "</p>", NL >>

Lower(c) == IF c = "Description:" THEN "description:" ELSE c

\* re.sub(r"<[^>]+>", "", s)
StripTags(s) == SelectSeq(s, LAMBDA c : c \notin Tags)

\* re.sub(r"\s+", " ", s)
RECURSIVE CollapseWS(_)
CollapseWS(s) ==
  IF s = << >> THEN << >>
  ELSE IF IsSpace(Head(s))
       THEN << WS >> \o CollapseWS(LStrip(s))
       ELSE << Head(s) >> \o CollapseWS(Tail(s))

\* clean.replace("\n", "<br>")
ReplaceNL(s) == [ n \in 1..Len(s) |-> IF s[n] = NL THEN "<br>" ELSE s[n] ]

\* ensure_description_header_and_html with ADD_DESC_HEADER and
\* WRAP_PLAIN_TEXT_HTML at their defaults (true)
ensure_description_header_and_html(html) ==
  IF html = Empty THEN html
  ELSE
    LET clean0     == Strip(html)
        looks_html == \E n \in 1..Len(clean0) : clean0[n] \in HtmlMarkers
        clean      == IF ~looks_html
                      THEN << "<p>" >> \o ReplaceNL(clean0) \o << "</p>" >>
                      ELSE clean0
        text       == Strip(CollapseWS(StripTags(clean)))
        snippet    == SubSeq(text, 1, Min(Len(text), SNIPPET_LEN))
    IN
    IF \E n \in 1..Len(snippet) : Lower(snippet[n]) = "description:"
    THEN clean
    ELSE DescHeader \o clean

\* GetInventoryItemDescriptions answer: rows of {Source, SubSource, Description}
LwDescRows(sku) ==
  CASE world.lw[sku] = "item" /\ OnChannel(sku) ->
         << [Source |-> "AMAZON", SubSource |-> "AMZ_UK",          Description |-> <<"z">>],
            [Source |-> "ebay",   SubSource |-> CHANNEL_SUBSOURCE,
             Description |-> <<WS, "d", NL, "e">>] >>
    [] world.lw[sku] = "item" /\ ~OnChannel(sku) ->
         << [Source |-> "EBAY",   SubSource |-> CHANNEL_SUBSOURCE,
             Description |-> <<"<p>", "Description:", WS, "f", "</p>">>] >>
    [] world.lw[sku] = "none" /\ OnChannel(sku) ->
         << [Source |-> "EBAY",   SubSource |-> CHANNEL_SUBSOURCE, Description |-> <<WS>>],
            [Source |-> "EBAY",   SubSource |-> CHANNEL_SUBSOURCE, Description |-> <<"g">>] >>
    [] OTHER -> << >>

\* lw_pick_channel_desc: the Description of the first row of the pair, blank or not
RECURSIVE lw_pick_channel_desc(_, _, _)
lw_pick_channel_desc(desc_rows, source, subsource) ==
  IF desc_rows = << >> THEN Empty
  ELSE LET d == Head(desc_rows) IN
       IF Upper(d.Source) = Upper(source) /\ d.SubSource = subsource
       THEN d.Description
       ELSE lw_pick_channel_desc(Tail(desc_rows), source, subsource)

\* lw_get_stock_ids: same request and fallback as the title job
lw_get_stock_ids(batch, e1, e2) ==
  LET mapping == [ s \in { it.SKU : it \in LwItems(batch) } |-> StockItemId(s) ] IN
  IF ~e1 THEN [ ok |-> TRUE, mapping |-> mapping, n |-> 1 ]
  ELSE IF ~e2 THEN [ ok |-> TRUE, mapping |-> mapping, n |-> 2 ]
  ELSE [ ok |-> FALSE, mapping |-> << >>, n |-> 2 ]

AllSkus == [ k \in 1..MaxKeys |-> SkuNames[k] ]

ProductExists(p) ==
  \/ \E s \in Skus : world.prod[s] = p
  \/ p = BareProduct /\ world.bare

\* sh_paginate_products_empty_desc: products whose stripped body_html is empty
EmptyDesc(p) == ProductExists(p) /\ Strip(shop.body[p]) = Empty

PendingRow(sku, p) ==
  [ SKU |-> sku, ProductID |-> p, Status |-> "PENDING", NewHTML |-> Empty,
    NewDescLen |-> 0 ]

\* discover_candidates: one row per variant SKU of each product with an empty
\* description, one row with a blank SKU for a product without any SKU
RECURSIVE discover_from(_)
discover_from(p) ==
  IF p > MaxKeys + 1 THEN << >>
  ELSE
    LET ss   == SelectSeq(AllSkus, LAMBDA x : world.prod[x] = p)
        here == IF ~EmptyDesc(p) THEN << >>
                ELSE IF ss = << >> THEN << PendingRow("", p) >>
                ELSE [ n \in 1..Len(ss) |-> PendingRow(ss[n], p) ]
    IN here \o discover_from(p + 1)

discover_candidates == discover_from(1)

\* to_rowdicts_for_append
to_rowdicts_for_append(rs) ==
  [ n \in 1..Len(rs) |->
      [ SKU |-> rs[n].SKU, ProductID |-> rs[n].ProductID,
        NewDescLen |-> rs[n].NewDescLen, Status |-> rs[n].Status,
        DryRun |-> cfg.dry, Run |-> run ] ]

want_skus(rs) ==
  LET keyed == SelectSeq(rs, LAMBDA r : r.SKU # "") IN
  [ n \in 1..Len(keyed) |-> keyed[n].SKU ]

SetRow(rs, n, st, html) ==
  [ rs EXCEPT ![n] = [ @ EXCEPT !.Status = st, !.NewHTML = html,
                                !.NewDescLen = Len(html) ] ]

SetStatus(rs, n, st) == [ rs EXCEPT ![n].Status = st ]

\* run_process step 2, line 757: the tracker append after populate; run_update
\* calls populate_from_linnworks only to get the HTML again
AfterPopulate(rs) ==
  IF cfg.mode = "process" THEN tracker \o to_rowdicts_for_append(rs) ELSE tracker

\* run_update, lines 682-702: the rows of the tracker sheet whose Status is
\* POPULATED or POPULATE_READY, in sheet order
tracker_candidates ==
  LET hit == SelectSeq(tracker, LAMBDA r : r.Status \in {"POPULATED", "POPULATE_READY"})
  IN [ n \in 1..Len(hit) |->
         [ SKU |-> hit[n].SKU, ProductID |-> hit[n].ProductID, Status |-> hit[n].Status,
           NewHTML |-> Empty, NewDescLen |-> hit[n].NewDescLen ] ]

\* run_update (--mode update): read the candidates from the tracker; without any
\* the run is over
DU_RunUpdate ==
  /\ script = "desc" /\ cfg.mode = "update" /\ pc = "start"
  /\ rows' = tracker_candidates
  /\ pc' = IF tracker_candidates = << >> THEN "done" ELSE "populate"
  /\ i' = 1
  /\ UNCHANGED << http, script, cfg, world, shop, run, budget, calls, sku_to_id, tracker,
                  titleState >>

\* run_process step 1: discover_candidates, then the tracker append
DU_Discover ==
  /\ script = "desc" /\ cfg.mode = "process" /\ pc = "start"
  /\ calls' = Append(calls, Call("SH_LIST_PRODUCTS", "", 0, "body_html", Empty))
  /\ \E fail \in BOOLEAN :
       /\ BoolN(fail) <= budget
       /\ budget' = budget - BoolN(fail)
       /\ IF fail
          THEN pc' = "fatal" /\ UNCHANGED << rows, tracker >>
          ELSE /\ pc' = "populate"
               /\ rows' = discover_candidates
               /\ tracker' = tracker \o to_rowdicts_for_append(discover_candidates)
  /\ i' = 1
  /\ UNCHANGED << http, script, cfg, world, shop, run, sku_to_id, titleState >>

\* populate_from_linnworks, lines 500-507: nothing to resolve, or authenticate
DU_PopulateStart ==
  /\ script = "desc" /\ pc = "populate"
  /\ IF want_skus(rows) = << >>
     THEN /\ tracker' = AfterPopulate(rows)
          /\ pc' = "update"
          /\ UNCHANGED << budget, calls >>
     ELSE \E fail \in BOOLEAN :
          /\ BoolN(fail) <= budget
          /\ budget' = budget - BoolN(fail)
          /\ calls' = Append(calls, Call("LW_AUTH", "", 0, "", Empty))
          /\ pc' = IF fail THEN "fatal" ELSE "resolve"
          /\ UNCHANGED tracker
  /\ i' = 1
  /\ UNCHANGED << http, script, cfg, world, shop, run, sku_to_id, rows, titleState >>

\* lines 510-515: one batch of the SKU -> StockItemId resolution; an exception
\* of lw_get_stock_ids leaves populate_from_linnworks and ends the run
DU_ResolveBatch ==
  /\ script = "desc" /\ pc = "resolve"
  /\ LET batches == chunked(want_skus(rows), BATCH_SIZE) IN
     /\ i <= Len(batches)
     /\ \E e1 \in BOOLEAN, e2 \in BOOLEAN :
          LET r == lw_get_stock_ids(batches[i], e1, e2) IN
          /\ e2 => e1
          /\ BoolN(e1) <= budget
          /\ budget' = budget - BoolN(e1)
          /\ calls' = calls \o ResolveCalls(batches[i], r.n)
          /\ sku_to_id' = IF r.ok THEN UpdateMapping(sku_to_id, r.mapping) ELSE sku_to_id
          /\ IF ~r.ok THEN pc' = "fatal" /\ i' = i
             ELSE IF i = Len(batches) THEN pc' = "populate_rows" /\ i' = 1
             ELSE pc' = pc /\ i' = i + 1
  /\ UNCHANGED << http, script, cfg, world, shop, run, tracker, rows, titleState >>

\* lines 517-543: the populate loop body for one row
DU_PopulateRow ==
  /\ script = "desc" /\ pc = "populate_rows" /\ i <= Len(rows)
  /\ LET r == rows[i] IN
     IF r.SKU = ""
     THEN rows' = SetStatus(rows, i, "SKIPPED") /\ UNCHANGED << budget, calls >>
     ELSE IF sku_to_id[r.SKU] = 0
     THEN rows' = SetStatus(rows, i, "NOT_FOUND") /\ UNCHANGED << budget, calls >>
     ELSE
       \E fail \in BOOLEAN :
         LET html == lw_pick_channel_desc(LwDescRows(r.SKU), CHANNEL_SOURCE,
                                          CHANNEL_SUBSOURCE)
         IN
         /\ BoolN(fail) <= budget
         /\ budget' = budget - BoolN(fail)
         /\ calls' = Append(calls, Call("LW_DESC", r.SKU, sku_to_id[r.SKU],
                                         "description", Empty))
         /\ rows' = IF fail THEN SetStatus(rows, i, "ERROR")
                    ELSE IF Strip(html) # Empty
                    THEN SetRow(rows, i,
                                IF cfg.dry THEN "POPULATE_READY" ELSE "POPULATED",
                                ensure_description_header_and_html(html))
                    ELSE SetStatus(rows, i, "MISSING_DESC")
  /\ i' = i + 1
  /\ UNCHANGED << http, script, cfg, world, shop, run, pc, sku_to_id, tracker, titleState >>

\* the end of populate_from_linnworks
DU_PopulateDone ==
  /\ script = "desc" /\ pc = "populate_rows" /\ i > Len(rows)
  /\ tracker' = AfterPopulate(rows)
  /\ pc' = "update"
  /\ i' = 1
  /\ UNCHANGED << http, script, cfg, world, shop, run, budget, calls, sku_to_id, rows,
                  titleState >>

\* a body_html that is never taken for an existing description
description_never_seen(cur) == FALSE

\* lines 569-571: `if cur:` on the stripped body_html just fetched
already_has_description(cur) == cur # Empty

\* update_shopify(rows, force = args.force): the loop body for one row
DU_UpdateRow ==
  /\ script = "desc" /\ pc = "update" /\ i <= Len(rows)
  /\ LET r     == rows[i]
         pid   == r.ProductID
         force == cfg.force
     IN
     IF r.Status \notin {"POPULATED", "POPULATE_READY"}
     THEN UNCHANGED << rows, budget, calls, shop >>
     ELSE IF cfg.dry
     THEN rows' = SetStatus(rows, i, "POPULATE_READY") /\ UNCHANGED << budget, calls, shop >>
     ELSE IF Strip(r.NewHTML) = Empty
     THEN rows' = SetStatus(rows, i, "ERROR") /\ UNCHANGED << budget, calls, shop >>
     ELSE
       \E get \in BOOLEAN, put \in {"ok", "err", "stale"} :
         LET csGet == IF force THEN << >>
                      ELSE << Call("SH_GET_PRODUCT", r.SKU, pid, "body_html", Empty) >>
             csPut == << Call("SH_PUT_PRODUCT", r.SKU, pid, "body_html", r.NewHTML) >>
             cur   == Strip(shop.body[pid])
         IN
         /\ force => ~get
         /\ IF ~force /\ get
            THEN \* sh_get_product raises
                 /\ put = "ok"
                 /\ budget >= 1 /\ budget' = budget - 1
                 /\ calls' = calls \o csGet
                 /\ rows' = SetStatus(rows, i, "ERROR")
                 /\ shop' = shop
            ELSE IF ~force /\ already_has_description(cur)
            THEN /\ put = "ok"
                 /\ calls' = calls \o csGet
                 /\ rows' = SetStatus(rows, i, "SKIPPED")
                 /\ UNCHANGED << budget, shop >>
            ELSE /\ BoolN(put # "ok") <= budget
                 /\ budget' = budget - BoolN(put # "ok")
                 /\ calls' = calls \o csGet \o csPut
                 /\ shop' = IF put = "err" THEN shop ELSE PutBody(pid, r.NewHTML, put)
                 /\ rows' = SetStatus(rows, i, IF put = "err" THEN "ERROR" ELSE "UPDATED")
  /\ i' = i + 1
  /\ UNCHANGED << http, script, cfg, world, run, pc, sku_to_id, tracker, titleState >>

\* run_process step 3, line 760, and run_update: the tracker append after
\* update; run_process goes on to verify
DU_UpdateDone ==
  /\ script = "desc" /\ pc = "update" /\ i > Len(rows)
  /\ tracker' = tracker \o to_rowdicts_for_append(rows)
  /\ pc' = IF cfg.mode = "process" THEN "verify" ELSE "done"
  /\ i' = 1
  /\ UNCHANGED << http, script, cfg, world, shop, run, budget, calls, sku_to_id, rows,
                  titleState >>

\* a verify stage that re-reads the product of every row
verify_any_status(status) == TRUE

\* lines 592-596: verify_updates looks at UPDATED rows only (POPULATE_READY, the
\* dry-run status, is passed over)
verify_candidate(status) == status \in {"UPDATED", "POPULATE_READY"} /\ status # "POPULATE_READY"

\* verify_updates: the loop body for one row
DU_VerifyRow ==
  /\ script = "desc" /\ pc = "verify" /\ i <= Len(rows)
  /\ LET r == rows[i] IN
     IF ~verify_candidate(r.Status)
     THEN UNCHANGED << rows, budget, calls >>
     ELSE
       \E fail \in BOOLEAN :
         /\ BoolN(fail) <= budget
         /\ budget' = budget - BoolN(fail)
         /\ calls' = Append(calls, Call("SH_GET_PRODUCT", r.SKU, r.ProductID,
                                         "body_html", Empty))
         /\ rows' = SetStatus(rows, i,
                      IF fail THEN "ERROR"
                      ELSE IF Strip(shop.body[r.ProductID]) # Empty THEN "VERIFIED"
                      ELSE "VERIFY_FAIL")
  /\ i' = i + 1
  /\ UNCHANGED << http, script, cfg, world, shop, run, pc, sku_to_id, tracker, titleState >>

\* run_process step 4, line 763: the tracker append after verify
DU_VerifyDone ==
  /\ script = "desc" /\ pc = "verify" /\ i > Len(rows)
  /\ tracker' = tracker \o to_rowdicts_for_append(rows)
  /\ pc' = "done"
  /\ UNCHANGED << http, script, cfg, world, shop, run, i, budget, calls, sku_to_id, rows,
                  titleState >>

\* ============================== christmas trees uploader (main), no Linnworks
IMAGE_LIMIT       == 2           \* 250 media per product, scaled
DRY_PRODUCT_ID    == 999000002   \* id returned by create_product under DRY_RUN

Max(a, b) == IF a > b THEN a ELSE b

\* load_rows(INPUT_CSV): odd rows carry title, price and description, even rows
\* only the SKU; the last row has a blank SKU
load_rows ==
  [ k \in 1..(MaxKeys + 1) |->
      IF k = MaxKeys + 1
      THEN [ SKU |-> "", Title |-> <<"t">>, Price |-> <<"9">>, Description |-> Empty ]
      ELSE IF k % 2 = 1
      THEN [ SKU |-> SkuNames[k], Title |-> <<"t">>, Price |-> <<"9">>,
             Description |-> <<"d">> ]
      ELSE [ SKU |-> SkuNames[k], Title |-> Empty, Price |-> Empty,
             Description |-> Empty ] ]

\* gather_images_for_sku: the files of IMAGES_ROOT/<sku>, by filename
gather_images_for_sku(sku) ==
  IF sku # "" /\ OnChannel(sku) THEN << "i1", "i2" >> ELSE << >>

\* The calls one row makes, any of which may be the one that raises
FailPoints == {"none", "find", "putp", "putv", "list", "img", "create", "collect"}

\* A call made by a helper: logged; when it raises, the store is untouched and
\* the exception travels up through main
Step(st, call, fails, sh2) ==
  IF st.fatal THEN st
  ELSE [ cs |-> Append(st.cs, call), shop |-> IF fails THEN st.shop ELSE sh2,
         fatal |-> fails, n |-> st.n + BoolN(fails) ]

\* find_variant_by_sku over GraphQL (a read): (product_id, variant_id) or <<0, 0>>
ct_find_variant_by_sku(sh, sku) ==
  IF world.prod[sku] # 0 THEN << world.prod[sku], VariantId(sku) >>
  ELSE IF sh.created[sku] # 0 THEN << sh.created[sku], VariantId(sku) >>
  ELSE << 0, 0 >>

\* update_product_and_variant
update_product_and_variant(st, sku, pid, vid, title, price, description, f) ==
  IF cfg.dry THEN st
  ELSE
    LET s1 == Step(st, Call("SH_PUT_PRODUCT", sku, pid,
                            IF title # Empty THEN "title+body_html" ELSE "body_html",
                            title \o description),
                   f = "putp",
                   [ st.shop EXCEPT !.title[pid] = IF title # Empty THEN title ELSE @,
                                    !.body[pid]  = description ])
    IN
    IF price # Empty
    THEN Step(s1, Call("SH_PUT_VARIANT", sku, vid, "price", price), f = "putv",
              [ s1.shop EXCEPT !.price[sku] = price ])
    ELSE s1

RECURSIVE PostImages(_, _, _, _, _)
PostImages(st, sku, pid, to_upload, f) ==
  IF to_upload = << >> THEN st
  ELSE PostImages(
         Step(st, Call("SH_POST_IMAGE", sku, pid, "image", << Head(to_upload) >>),
              f = "img",
              [ st.shop EXCEPT !.images[pid] = @ \cup { Head(to_upload) } ]),
         sku, pid, Tail(to_upload), f)

\* upload_images_to_product
upload_images_to_product(st, sku, pid, images, f) ==
  IF st.fatal \/ images = << >> THEN st
  ELSE
    LET s1        == Step(st, Call("SH_LIST_IMAGES", sku, pid, "images", Empty),
                          f = "list", st.shop)
        existing  == st.shop.images[pid]
        total     == Cardinality(existing)
        fresh     == SelectSeq(images, LAMBDA x : x \notin existing)
        room      == Max(0, IMAGE_LIMIT - total)
        to_upload == SubSeq(fresh, 1, Min(Len(fresh), room))
    IN
    IF s1.fatal \/ total >= IMAGE_LIMIT \/ to_upload = << >> \/ cfg.dry THEN s1
    ELSE PostImages(s1, sku, pid, to_upload, f)

\* attach_to_collection without its DRY_RUN return
attach_ignoring_dry_run(st, sku, pid, f) ==
  IF st.fatal THEN st
  ELSE Step(st, Call("SH_POST_COLLECT", sku, pid, "collect", Empty), f = "collect",
            [ st.shop EXCEPT !.collects = @ \cup {pid} ])

\* attach_to_collection: the 422 "already exists" answer is swallowed, any
\* other failure is raised again
attach_to_collection(st, sku, pid, f) ==
  IF st.fatal \/ cfg.dry THEN st
  ELSE IF pid \in st.shop.collects
  THEN Step(st, Call("SH_POST_COLLECT", sku, pid, "collect", Empty), FALSE, st.shop)
  ELSE Step(st, Call("SH_POST_COLLECT", sku, pid, "collect", Empty), f = "collect",
            [ st.shop EXCEPT !.collects = @ \cup {pid} ])

\* The id Shopify gives to a new product
NewProductId(sh) ==
  CHOOSE p \in 1..MaxKeys :
    /\ \A x \in Skus : world.prod[x] # p /\ sh.created[x] # p
    /\ \A q \in 1..(p - 1) : \E x \in Skus : world.prod[x] = q \/ sh.created[x] = q

\* create_product: one product with one variant and the images
create_product(st, sku, title, price, description, images, f) ==
  IF cfg.dry THEN st
  ELSE
    LET pid == NewProductId(st.shop) IN
    Step(st, Call("SH_POST_PRODUCT", sku, pid, "product", title \o description),
         f = "create",
         [ st.shop EXCEPT !.created[sku] = pid,
                          !.title[pid]   = IF title # Empty THEN title ELSE << sku >>,
                          !.body[pid]    = description,
                          !.price[sku]   = price,
                          !.images[pid]  = { images[n] : n \in 1..Len(images) } ])

\* main, lines 324-346: the loop body for one CSV row
CT_Body(row, f) ==
  LET st0 == [ cs |-> << >>, shop |-> shop, fatal |-> FALSE, n |-> 0 ] IN
  IF row.SKU = "" THEN st0
  ELSE
    LET sku    == row.SKU
        images == gather_images_for_sku(sku)
        s1     == Step(st0, Call("SH_GQL_FIND", sku, 0, "productVariants", Empty),
                       f = "find", shop)
        pv     == ct_find_variant_by_sku(shop, sku)
    IN
    IF s1.fatal THEN s1
    ELSE IF pv[1] # 0 /\ pv[2] # 0
    THEN attach_to_collection(
           upload_images_to_product(
             update_product_and_variant(s1, sku, pv[1], pv[2], row.Title, row.Price,
                                        row.Description, f),
             sku, pv[1], images, f),
           sku, pv[1], f)
    ELSE
      LET s2 == create_product(s1, sku, row.Title, row.Price, row.Description,
                               images, f)
      IN attach_to_collection(s2, sku,
                              IF cfg.dry THEN DRY_PRODUCT_ID ELSE s2.shop.created[sku], f)

\* main, lines 306-319: load the CSV, then ensure_collection
CT_Start ==
  /\ script = "trees" /\ pc = "start"
  /\ rows' = load_rows
  /\ \E get \in BOOLEAN, post \in BOOLEAN :
       LET lookup == << Call("SH_LIST_COLLECTIONS", "", 0, "custom_collections", Empty) >>
           create == << Call("SH_POST_COLLECTION", "", 0, "custom_collection",
                             Empty) >>
       IN
       /\ get => ~post
       /\ BoolN(get) + BoolN(post) <= budget
       /\ budget' = budget - (BoolN(get) + BoolN(post))
       /\ IF get
          THEN calls' = calls \o lookup /\ pc' = "fatal" /\ shop' = shop
          ELSE IF shop.coll \/ cfg.dry
          THEN /\ ~post
               /\ calls' = calls \o lookup /\ pc' = "loop" /\ shop' = shop
          ELSE /\ calls' = calls \o lookup \o create
               /\ pc' = IF post THEN "fatal" ELSE "loop"
               /\ shop' = IF post THEN shop ELSE [ shop EXCEPT !.coll = TRUE ]
  /\ i' = 1
  /\ UNCHANGED << http, script, cfg, world, run, sku_to_id, tracker, titleState >>

\* main, lines 323-346: one iteration of the loop; an exception of any helper
\* is not caught and ends the run
CT_Key ==
  /\ script = "trees" /\ pc = "loop" /\ i <= Len(rows)
  /\ \E f \in FailPoints :
       LET o == CT_Body(rows[i], f) IN
       /\ o.n = BoolN(f # "none")
       /\ o.n <= budget
       /\ budget' = budget - o.n
       /\ calls' = calls \o o.cs
       /\ shop' = o.shop
       /\ IF o.fatal THEN pc' = "fatal" /\ i' = i
                     ELSE pc' = pc /\ i' = i + 1
  /\ UNCHANGED << http, script, cfg, world, run, sku_to_id, tracker, rows, titleState >>

\* main, line 348
CT_Done ==
  /\ script = "trees" /\ pc = "loop" /\ i > Len(rows)
  /\ pc' = "done"
  /\ UNCHANGED << http, script, cfg, world, shop, run, i, budget, calls, sku_to_id, tracker,
                  rows, titleState >>

\* =========================== collection sync (sync_collections), no Linnworks
\* load_category_rows(INPUT_CSV): the first n rows of the mapping CSV; odd rows
\* name one collection, even rows none; the row after the last SKU has a blank
\* SKU
load_category_rows(n) ==
  [ k \in 1..n |->
      [ sku |-> IF k = MaxKeys + 1 THEN "" ELSE SkuNames[k],
        c1  |-> IF k % 2 = 1 THEN "X" ELSE "" ] ]

\* c_names_clean of a row
c_names_clean(row) == IF row.c1 # "" THEN << row.c1 >> ELSE << >>

\* ensure_collection(cname), called once per row and collection name
sc_ensure_collection(st, sku, f) ==
  LET s1 == Step(st, Call("SH_LIST_COLLECTIONS", sku, 0, "custom_collections", Empty),
                 f = "list", st.shop)
  IN
  IF s1.fatal \/ st.shop.coll \/ cfg.dry THEN s1
  ELSE Step(s1, Call("SH_POST_COLLECTION", sku, 0, "custom_collection", Empty),
            f = "create", [ st.shop EXCEPT !.coll = TRUE ])

\* the report row of a CSV row
report_row(row, pid, status) ==
  [ linnworks_sku |-> row.sku, product_id |-> pid,
    collections_linked |-> c_names_clean(row), status |-> status ]

\* sync_collections, lines 290-346: the loop body for one CSV row
SC_Body(row, f) ==
  LET st0 == [ cs |-> << >>, shop |-> shop, fatal |-> FALSE, n |-> 0 ] IN
  IF row.sku = "" THEN [ st |-> st0, row |-> report_row(row, 0, "SKIP_NO_SKU") ]
  ELSE
    LET s1 == Step(st0, Call("SH_GQL_FIND", row.sku, 0, "productVariants", Empty),
                   f = "find", shop)
        pv == ct_find_variant_by_sku(shop, row.sku)
    IN
    IF s1.fatal \/ pv[1] = 0
    THEN [ st |-> s1, row |-> report_row(row, 0, "NOT_FOUND") ]
    ELSE IF c_names_clean(row) = << >>
    THEN [ st |-> s1, row |-> report_row(row, pv[1], "NO_COLLECTIONS") ]
    ELSE [ st  |-> attach_to_collection(sc_ensure_collection(s1, row.sku, f),
                                        row.sku, pv[1], f),
           row |-> report_row(row, pv[1], "OK") ]

\* sync_collections, lines 283-288: load the CSV
SC_Start ==
  /\ script = "sync" /\ pc = "start"
  /\ \E n \in 0..(MaxKeys + 1) : rows' = load_category_rows(n)
  /\ buffer' = << >>
  /\ pc' = "loop"
  /\ i' = 1
  /\ UNCHANGED << http, script, cfg, world, shop, run, budget, calls, skus, sku_to_id,
                  updated_products, tracker, csvlog >>

\* sync_collections, lines 290-348: one iteration of the loop; the row is only
\* added to report_rows, and an exception of a helper is not caught
SC_Key ==
  /\ script = "sync" /\ pc = "loop" /\ i <= Len(rows)
  /\ \E f \in {"none", "find", "list", "create", "collect"} :
       LET o == SC_Body(rows[i], f) IN
       /\ o.st.n = BoolN(f # "none")
       /\ o.st.n <= budget
       /\ budget' = budget - o.st.n
       /\ calls' = calls \o o.st.cs
       /\ shop' = o.st.shop
       /\ IF o.st.fatal
          THEN pc' = "fatal" /\ i' = i /\ buffer' = buffer
          ELSE pc' = pc /\ i' = i + 1 /\ buffer' = Append(buffer, o.row)
  /\ UNCHANGED << http, script, cfg, world, run, skus, sku_to_id, updated_products,
                  tracker, csvlog, rows >>

\* write_report(report_rows): nothing without rows, else the report file is
\* opened with mode "w" and gets the rows of this run
SC_WriteReport ==
  /\ script = "sync" /\ pc = "loop" /\ i > Len(rows)
  /\ tracker' = IF buffer = << >> THEN tracker ELSE buffer
  /\ pc' = "done"
  /\ UNCHANGED << http, script, cfg, world, shop, run, i, budget, calls, skus,
                  sku_to_id, updated_products, buffer, csvlog, rows >>

\* ======================================================= HTTP helper calls
\* One call of a helper that talks to a remote system: every request it sends
\* is recorded with the answer it got, every sleep with its length in
\* milliseconds.  The answer is an HTTP status, or Timeout when requests raises
\* instead of returning a response.
RETRY_MAX_ATTEMPTS  == 6      \* uploader: requests per req() / gql() call
RETRY_BASE_DELAY_MS == 500    \* uploader: RETRY_BASE_DELAY_S = 0.5
BACKOFF_CAP_MS      == 8000   \* uploader: min(..., 8.0) in backoff_sleep
RATE_LIMIT_SLEEP_MS == 2000   \* title job and description updater: time.sleep(2)
MaxAttempts         == 7      \* requests of one helper call that are explored

Timeout      == 0
RETRY_STATUS == {429, 500, 502, 503, 504}
Answers      == {200, 401, 429, 503, 404, Timeout}

Helpers == {"sh_update_product_title", "sh_get_product", "lw_get", "req"}

RECURSIVE Pow2(_)
Pow2(n) == IF n = 0 THEN 1 ELSE 2 * Pow2(n - 1)

\* backoff_sleep(attempt)
backoff_sleep(attempt) == Min(RETRY_BASE_DELAY_MS * Pow2(attempt - 1), BACKOFF_CAP_MS)

\* What a helper does with the answer to its attempt-th request: return, raise,
\* or sleep `sleep` milliseconds and send the request again
Return         == [ then |-> "return", sleep |-> 0 ]
Raise          == [ then |-> "raise",  sleep |-> 0 ]
RetryAfter(ms) == [ then |-> "retry",  sleep |-> ms ]

\* a PUT helper that sends the request again at once when it is rate-limited
sh_update_product_title_no_sleep(attempt, a) ==
  IF a = Timeout THEN Raise
  ELSE IF a = 429 THEN [ then |-> "retry", sleep |-> 0 ]
  ELSE IF a >= 400 THEN Raise
  ELSE Return

\* sh_update_product_title, sh_update_variant_option1 (title job) and
\* sh_update_product_desc (description updater)
sh_update_product_title(attempt, a) ==
  IF a = Timeout THEN Raise
  ELSE IF a = 429 THEN RetryAfter(RATE_LIMIT_SLEEP_MS)
  ELSE IF a >= 400 THEN Raise
  ELSE Return

\* sh_get_product, sh_get_variant, find_variant_by_sku: 429, then raise_for_status
sh_get_product(attempt, a) ==
  IF a = Timeout THEN Raise
  ELSE IF a = 429 THEN RetryAfter(RATE_LIMIT_SLEEP_MS)
  ELSE IF a >= 400 THEN Raise
  ELSE Return

\* lw_get, lw_post: anything but 200 raises
lw_get(attempt, a) ==
  IF a = Timeout THEN Raise
  ELSE IF a # 200 THEN Raise
  ELSE Return

\* a req that keeps retrying after the last attempt
req_unbounded(attempt, a) ==
  IF a = Timeout THEN Raise
  ELSE IF a \in RETRY_STATUS THEN RetryAfter(backoff_sleep(attempt))
  ELSE IF a >= 300 THEN Raise
  ELSE Return

\* req, gql (uploader)
req(attempt, a) ==
  IF a = Timeout THEN Raise
  ELSE IF a \in RETRY_STATUS
  THEN IF attempt = RETRY_MAX_ATTEMPTS THEN Raise ELSE RetryAfter(backoff_sleep(attempt))
  ELSE IF a >= 300 THEN Raise
  ELSE Return

\* The key the helper calls are made for, and what its loop iteration reports
\* when the helper returns or raises
HttpSku == SkuNames[1]

NoFailure == [ lw |-> FALSE, core |-> FALSE, find |-> FALSE, get |-> FALSE,
               put |-> "ok", get2 |-> FALSE ]

KeyOutcome(fn, raised) ==
  CASE fn = "sh_update_product_title" ->
         TF_FetchTitle(HttpSku, StockItemId(HttpSku),
                       [ NoFailure EXCEPT !.put = IF raised THEN "err" ELSE "ok" ]).status
    [] fn = "sh_get_product" ->
         TF_FetchTitle(HttpSku, StockItemId(HttpSku),
                       [ NoFailure EXCEPT !.get = raised ]).status
    [] fn = "lw_get" ->
         TF_FetchTitle(HttpSku, StockItemId(HttpSku),
                       [ NoFailure EXCEPT !.lw = raised ]).status
    [] fn = "req" ->
         IF CT_Body(load_rows[1], IF raised THEN "putp" ELSE "none").fatal
         THEN "RuntimeError" ELSE "[UPDATE]"

\* The request of a helper call: the same arguments at every attempt
Request(fn) ==
  CASE fn = "sh_update_product_title" ->
         [ method |-> "PUT", path |-> "/products/1.json", body |-> <<"a">> ]
    [] fn = "sh_get_product" ->
         [ method |-> "GET", path |-> "/products/1.json", body |-> Empty ]
    [] fn = "lw_get" ->
         [ method |-> "GET", path |-> "/Inventory/GetInventoryItemTitles", body |-> Empty ]
    [] fn = "req" ->
         [ method |-> "PUT", path |-> "/products/1.json", body |-> <<"t", "d">> ]

\* One request of the helper call in progress and the helper's reaction to the
\* answer
Attempt(fn, react(_, _)) ==
  /\ pc = "http" /\ http.fn = fn /\ http.phase = "open"
  /\ http.attempt < MaxAttempts
  /\ \E a \in Answers :
       LET n == http.attempt + 1
           r == react(n, a)
       IN http' = [ http EXCEPT
                      !.attempt = n,
                      !.sent    = Append(@, Request(fn)),
                      !.answers = Append(@, a),
                      !.sleeps  = IF r.then = "retry" /\ r.sleep > 0
                                  THEN Append(@, r.sleep) ELSE @,
                      !.phase   = CASE r.then = "retry"  -> "open"
                                    [] r.then = "return" -> "returned"
                                    [] r.then = "raise"  -> "raised",
                      !.outcome = IF r.then = "retry" THEN ""
                                  ELSE KeyOutcome(fn, r.then = "raise") ]
  /\ UNCHANGED << script, cfg, world, shop, run, pc, i, budget, calls, skus, sku_to_id,
                  updated_products, buffer, tracker, csvlog, rows >>

SH_UpdateProductTitle == Attempt("sh_update_product_title", sh_update_product_title)
SH_GetProduct         == Attempt("sh_get_product", sh_get_product)
LW_Get                == Attempt("lw_get", lw_get)
Req                   == Attempt("req", req)

\* ========================================================= key resolution
\* The stand-alone scripts that read a column of SKUs from a CSV file and map
\* them to StockItemIds with Inventory/GetStockItemIdsBySKU
Resolvers == { "check_skus_exist", "download_ebay_prices", "linnworks_fetch_by_sku",
               "linnworks_specification" }

\* cells of the linnworks_sku column: an empty cell, a cell of whitespace, keys
\* with and without padding
CsvCells == { Empty, <<WS>>, <<"A">>, <<"A", WS>>, <<"B">> }

\* what the remote system may answer to one request
ResolveAnswers == { 200, 400, 401, 415, 503, Timeout }

RETRY_WAIT    == 2
TRY_POST_RETRIES == 2

\* Series.unique(): first occurrences, in order
RECURSIVE unique(_)
unique(seq) ==
  IF seq = << >> THEN << >>
  ELSE LET r == unique(SubSeq(seq, 1, Len(seq) - 1))
           l == seq[Len(seq)]
       IN IF \E k \in 1..Len(r) : r[k] = l THEN r ELSE Append(r, l)

StripAll(seq) == [ k \in 1..Len(seq) |-> Strip(seq[k]) ]
NonBlank(seq) == SelectSeq(seq, LAMBDA s : s # Empty)

\* main: the key list each script builds from the column.  read_csv gives NaN
\* for an empty cell and keeps a cell of whitespace as text
read_keys(f, cells) ==
  IF f = "linnworks_specification"
  THEN StripAll(SelectSeq(cells, LAMBDA c : Strip(c) # Empty))
  ELSE unique(StripAll(SelectSeq(cells, LAMBDA c : c # Empty)))

\* main: the first chunk handed to the helper (the chunk size is above MaxCells)
first_chunk(f, keys) ==
  IF f = "download_ebay_prices" THEN NonBlank(keys) ELSE keys

\* the keys the helper puts in its payload
payload_keys(f, arg) ==
  IF f = "check_skus_exist" THEN NonBlank(StripAll(arg)) ELSE arg

FirstStage(f) ==
  CASE f \in {"check_skus_exist", "download_ebay_prices"} -> "primary"
    [] f \in {"linnworks_fetch_by_sku", "linnworks_specification"} -> "json"

\* the request a helper sends in a stage: payload field name, body encoding, keys
ResolveRequest(f, stage, arg) ==
  [ name |-> CASE f \in {"check_skus_exist", "download_ebay_prices"} ->
                    IF stage = "primary" THEN "skus" ELSE "SKUS"
               [] f = "linnworks_fetch_by_sku"  -> "skus"
               [] f = "linnworks_specification" -> "SKUS",
    enc  |-> CASE f \in {"check_skus_exist", "download_ebay_prices"} -> "wrapped"
               [] f = "linnworks_fetch_by_sku"  -> stage
               [] f = "linnworks_specification" ->
                    IF stage = "json" THEN "json" ELSE "wrapped",
    keys |-> payload_keys(f, arg) ]

Again(stage, attempt, sleep) ==
  [ then |-> "send", stage |-> stage, attempt |-> attempt, sleep |-> sleep ]
Ends(how) == [ then |-> how, stage |-> how, attempt |-> 0, sleep |-> 0 ]

\* check_skus_exist / download_ebay_prices get_stock_item_ids_by_sku:
\* raise_for_status raises HTTPError for every status from 400 to 599, which
\* sends the second payload; a timeout is not an HTTPError
wrapper_get_stock_item_ids_by_sku(stage, attempt, a) ==
  IF a = 200 THEN Ends("returned")
  ELSE IF a = Timeout THEN Ends("raised")
  ELSE IF stage = "primary" THEN Again("alternate", 1, 0)
  ELSE Ends("raised")

\* linnworks_fetch_by_sku get_stock_item_ids_by_sku over _try_post: every
\* failed attempt below the retry count sleeps and posts again; the HTTPError of
\* the last attempt moves on to the next body encoding
fetch_get_stock_item_ids_by_sku(stage, attempt, a) ==
  IF a = 200 THEN Ends("returned")
  ELSE IF attempt < TRY_POST_RETRIES THEN Again(stage, attempt + 1, RETRY_WAIT * attempt)
  ELSE IF a = Timeout THEN Ends("raised")
  ELSE IF stage = "json" THEN Again("form", 1, 0)
  ELSE IF stage = "form" THEN Again("wrapped", 1, 0)
  ELSE Ends("raised")

\* linnworks_specification get_stockitem_ids_by_sku: the form-encoded body is
\* tried only after a 401 or 415 answer to the JSON body
get_stockitem_ids_by_sku(stage, attempt, a) ==
  IF a = 200 THEN Ends("returned")
  ELSE IF a = Timeout THEN Ends("raised")
  ELSE IF stage = "json" /\ a \in {401, 415} THEN Again("fallback", 1, 0)
  ELSE Ends("raised")

\* main up to the first helper call
RS_Main ==
  /\ pc = "start" /\ script \in Resolvers
  /\ LET keys  == read_keys(script, rows)
         chunk == first_chunk(script, keys)
     IN /\ skus' = keys
        /\ IF chunk = << >>
           THEN pc' = "done" /\ http' = http
           ELSE /\ pc' = "resolve"
                /\ http' = [ fn |-> script, phase |-> FirstStage(script), attempt |-> 1,
                             sent |-> << >>, answers |-> << >>, sleeps |-> << >>,
                             outcome |-> "", arg |-> chunk ]
  /\ UNCHANGED << script, cfg, world, shop, run, i, budget, calls, sku_to_id,
                  updated_products, buffer, tracker, csvlog, rows >>

\* One request of the helper call in progress and the helper's reaction
Resolve(fs, step(_, _, _)) ==
  /\ pc = "resolve" /\ script \in fs
  /\ \E a \in ResolveAnswers :
       LET r == step(http.phase, http.attempt, a)
       IN /\ http' = [ http EXCEPT
                         !.sent    = Append(@, ResolveRequest(script, http.phase, http.arg)),
                         !.answers = Append(@, a),
                         !.sleeps  = IF r.sleep > 0 THEN Append(@, r.sleep) ELSE @,
                         !.phase   = r.stage,
                         !.attempt = r.attempt,
                         !.outcome = IF r.then = "send" THEN "" ELSE r.then ]
          /\ pc' = IF r.then = "send" THEN "resolve" ELSE "done"
  /\ UNCHANGED << script, cfg, world, shop, run, i, budget, calls, skus, sku_to_id,
                  updated_products, buffer, tracker, csvlog, rows >>

RS_Wrapper == Resolve({"check_skus_exist", "download_ebay_prices"},
                      wrapper_get_stock_item_ids_by_sku)
RS_Fetch   == Resolve({"linnworks_fetch_by_sku"}, fetch_get_stock_item_ids_by_sku)
RS_Spec    == Resolve({"linnworks_specification"}, get_stockitem_ids_by_sku)

\* ==================================================== response normalising
\* JSON values of a GetStockItemIdsBySKU answer: tagged records, a dict being
\* the ordered list of its (key, value) pairs
JStr(s)   == [ t |-> "str",  v |-> s ]
JList(xs) == [ t |-> "list", v |-> xs ]
JDict(ps) == [ t |-> "dict", v |-> ps ]
JNum      == [ t |-> "num",  v |-> 7 ]
JNone     == [ t |-> "none", v |-> 0 ]

\* Python truthiness of a JSON value
Truthy(j) == CASE j.t = "none" -> FALSE
               [] j.t = "num"  -> j.v # 0
               [] j.t = "str"  -> j.v # ""
               [] OTHER        -> j.v # << >>

\* key in d, d.get(key)
Has(d, key) == \E n \in 1..Len(d.v) : d.v[n][1] = key
Get(d, key) == IF Has(d, key)
               THEN d.v[CHOOSE n \in 1..Len(d.v) :
                          d.v[n][1] = key /\ \A m \in (n + 1)..Len(d.v) : d.v[m][1] # key][2]
               ELSE JNone

\* row.get(n1) or row.get(n2) or ... : the first truthy field, else the last one
RECURSIVE FirstTruthy(_, _)
FirstTruthy(row, names) ==
  IF Len(names) = 1 \/ Truthy(Get(row, Head(names))) THEN Get(row, Head(names))
  ELSE FirstTruthy(row, Tail(names))

\* the dict built by assigning the pairs in order
RECURSIVE DictOf(_)
DictOf(ps) ==
  IF ps = << >> THEN [ k \in {} |-> JNone ]
  ELSE LET d == DictOf(SubSeq(ps, 1, Len(ps) - 1))
           p == ps[Len(ps)]
       IN [ k \in (DOMAIN d) \cup {p[1]} |-> IF k = p[1] THEN p[2] ELSE d[k] ]

Mapped(m) == [ raised |-> FALSE, mapping |-> m ]
Raised    == [ raised |-> TRUE,  mapping |-> DictOf(<< >>) ]

\* what the remote system knows: per key, in order, its list of ids
Contents ==
  LET IdLists == { << >>, <<"g1">>, <<"g1", "g2">> }
  IN {<< >>} \cup { << [SKU |-> "A", ids |-> a] >> : a \in IdLists }
             \cup { << [SKU |-> "A", ids |-> a], [SKU |-> "B", ids |-> b] >> :
                      a \in IdLists, b \in IdLists }

\* the shapes an answer comes in, and the envelope field around it
Shapes    == { "object_of_arrays", "array_of_objects", "array_of_single_id",
               "single_object", "text", "number", "null" }
Envelopes == { "none", "Data", "Items" }

IdList(ids) == JList([ n \in 1..Len(ids) |-> JStr(ids[n]) ])

\* the answer of the remote system for a content, in a shape
Encode(content, shape, envelope) ==
  LET N == 1..Len(content)
      body ==
        CASE shape = "object_of_arrays" ->
               JDict([ n \in N |-> << content[n].SKU, IdList(content[n].ids) >> ])
          [] shape = "array_of_objects" ->
               JList([ n \in N |-> JDict(<< <<"SKU", JStr(content[n].SKU)>>,
                                            <<"StockItemIds", IdList(content[n].ids)>> >>) ])
          [] shape = "array_of_single_id" ->
               JList([ n \in N |-> JDict(<< <<"SKU", JStr(content[n].SKU)>>,
                                            <<"StockItemId", JStr(content[n].ids[1])>> >>) ])
          [] shape = "single_object" ->
               JDict(<< <<"SKU", JStr(content[1].SKU)>>,
                        <<"StockItemIds", IdList(content[1].ids)>> >>)
          [] shape = "text"   -> JStr("oops")
          [] shape = "number" -> JNum
          [] shape = "null"   -> JNone
  IN IF envelope = "none" THEN body ELSE JDict(<< << envelope, body >> >>)

\* a content can be carried by a shape
Carries(content, shape) ==
  CASE shape = "array_of_single_id" -> \A n \in 1..Len(content) : Len(content[n].ids) = 1
    [] shape = "single_object"      -> Len(content) = 1
    [] OTHER                        -> TRUE

\* check_skus_exist get_stock_item_ids_by_sku, from the answer on (the same
\* code in download_ebay_prices)
cse_normalize(answer) ==
  LET data == IF answer.t # "dict" THEN answer
              ELSE IF Has(answer, "Data") /\ Get(answer, "Data").t = "list"
                   THEN Get(answer, "Data")
              ELSE IF Has(answer, "Items") /\ Get(answer, "Items").t = "list"
                   THEN Get(answer, "Items")
              ELSE answer
      OfItem(p) == << p[1], IF p[2].t = "list" THEN p[2] ELSE JList(<< p[2] >>) >>
      OfRow(row) ==
        LET ids    == FirstTruthy(row, <<"StockItemIds", "Ids">>)
            single == FirstTruthy(row, <<"StockItemId", "StockItemID", "Id", "ID">>)
            ids2   == IF Truthy(single) /\ ~Truthy(ids) THEN JList(<< single >>)
                      ELSE IF Truthy(ids) THEN ids ELSE JList(<< >>)
        IN << FirstTruthy(row, <<"SKU", "Sku", "sku">>).v,
              IF ids2.t = "list" THEN ids2 ELSE JList(<< ids2 >>) >>
  IN CASE data.t = "dict" ->
            LET kept == SelectSeq(data.v, LAMBDA p : p[2].t \in {"list", "str"})
            IN Mapped(DictOf([ n \in 1..Len(kept) |-> OfItem(kept[n]) ]))
       [] data.t = "list" ->
            LET kept == SelectSeq(data.v, LAMBDA row :
                          row.t = "dict" /\ Truthy(FirstTruthy(row, <<"SKU", "Sku", "sku">>)))
            IN Mapped(DictOf([ n \in 1..Len(kept) |-> OfRow(kept[n]) ]))
       [] OTHER -> Mapped(DictOf(<< >>))

\* linnworks_fetch_by_sku get_stock_item_ids_by_sku, from the answer on
fetch_normalize(answer) ==
  LET data_list == IF answer.t = "dict" /\ Has(answer, "Data")
                   THEN Get(answer, "Data") ELSE answer
      normalized ==
        IF data_list.t = "dict"
        THEN [ n \in 1..Len(data_list.v) |->
                 JDict(<< <<"SKU", JStr(data_list.v[n][1])>>,
                          <<"StockItemIds", data_list.v[n][2]>> >>) ]
        ELSE IF Truthy(data_list) THEN data_list.v ELSE << >>
      kept == SelectSeq(normalized, LAMBDA row :
                \/ row.t = "str"
                \/ row.t = "dict" /\ Truthy(FirstTruthy(row, <<"SKU", "Sku", "sku">>)))
      OfRow(row) ==
        IF row.t = "str" THEN << row.v, JList(<< >>) >>
        ELSE LET ids == FirstTruthy(row, <<"StockItemIds", "stockItemIds", "Ids">>)
             IN << FirstTruthy(row, <<"SKU", "Sku", "sku">>).v,
                   IF Truthy(ids) THEN ids ELSE JList(<< >>) >>
  IN IF data_list.t = "str" \/ (data_list.t = "num" /\ Truthy(data_list)) THEN Raised
     ELSE Mapped(DictOf([ n \in 1..Len(kept) |-> OfRow(kept[n]) ]))

\* shopify_title_fill_from_linnworks lw_get_stock_ids_by_sku, from the answer
\* on; the fallback request gets an answer of the same shape
title_normalize(answer) ==
  LET data  == IF Truthy(answer) THEN answer ELSE JDict(<< >>)
      items == IF data.t = "dict" /\ Has(data, "Items") THEN Get(data, "Items")
               ELSE JList(<< >>)
      \* iterating a dict gives its keys, a string its characters
      its   == CASE items.t = "list" -> items.v
                 [] items.t = "dict" -> [ n \in 1..Len(items.v) |-> JStr(items.v[n][1]) ]
                 [] items.t = "str"  -> IF items.v = "" THEN << >> ELSE << JStr("c") >>
                 [] OTHER            -> << >>
      kept  == SelectSeq(its, LAMBDA it :
                 it.t = "dict" /\ Truthy(Get(it, "SKU")) /\ Truthy(Get(it, "StockItemId")))
  IN IF \/ data.t # "dict"
        \/ items.t \in {"num", "none"}
        \/ \E n \in 1..Len(its) : its[n].t # "dict"
     THEN Raised
     ELSE Mapped(DictOf([ n \in 1..Len(kept) |->
                           << Get(kept[n], "SKU").v, Get(kept[n], "StockItemId") >> ]))

Normalizers == { "check_skus_exist", "linnworks_fetch_by_sku", "title" }

\* The helper gets the answer and builds its mapping
Normalize(f, normalize(_)) ==
  /\ pc = "start" /\ script = f
  /\ LET r == normalize(Encode(world.content, world.shape, world.envelope))
     IN /\ sku_to_id' = r.mapping
        /\ pc' = IF r.raised THEN "raised" ELSE "done"
  /\ UNCHANGED << script, cfg, world, shop, run, i, budget, calls, skus,
                  updated_products, buffer, tracker, csvlog, rows, http >>

NR_CheckSkusExist == Normalize("check_skus_exist", cse_normalize)
NR_FetchBySku     == Normalize("linnworks_fetch_by_sku", fetch_normalize)
NR_Title          == Normalize("title", title_normalize)

\* ============================================================= CSV exports
\* The scripts that resolve the keys of a CSV column and then fetch prices,
\* titles, item details or descriptions for them, from the resolution on
Exporters == { "download_ebay_prices", "download_ebay_prices_with_title",
               "linnworks_fetch_by_sku", "linnworks_specification" }

ExportKeys == << "A", "B" >>
ExportIds  == { "a1", "a2", "b1" }

\* the mappings the resolution can have built: every key with its list of ids
ExportMappings ==
  { [ k \in {"A", "B"} |-> IF k = "A" THEN a ELSE b ] :
      a \in { << >>, <<"a1">>, <<"a1", "a2">> }, b \in { << >>, <<"b1">> } }

\* GetInventoryItemPrices / GetInventoryItemDescriptions answer for an id
ChannelRows(sid) ==
  IF sid \in world.onchannel
  THEN << [Source |-> "AMAZON", SubSource |-> "AMZ_UK", Price |-> "9", Description |-> "z"],
          [Source |-> "ebay", SubSource |-> CHANNEL_SUBSOURCE, Price |-> "5",
           Description |-> "d"] >>
  ELSE << [Source |-> "EBAY", SubSource |-> "EBAY2_DE", Price |-> "9", Description |-> "z"] >>

\* pick_channel_price: the Price of the first row of the pair, "None" without one
RECURSIVE pick_channel_price(_, _, _)
pick_channel_price(rs, source, subsource) ==
  IF rs = << >> THEN "None"
  ELSE IF Upper(Head(rs).Source) = Upper(source) /\ Head(rs).SubSource = subsource
       THEN Head(rs).Price
       ELSE pick_channel_price(Tail(rs), source, subsource)

\* pick_channel_description: the Description of the first row of the pair
RECURSIVE pick_channel_description(_, _, _)
pick_channel_description(rs, source, subsource) ==
  IF rs = << >> THEN "Not Found"
  ELSE IF Upper(Head(rs).Source) = Upper(source) /\ Head(rs).SubSource = subsource
       THEN Head(rs).Description
       ELSE pick_channel_description(Tail(rs), source, subsource)

\* a request with the answer it got: target is the list of ids asked for,
\* field the request form
Fetch(op, sku, ids, form, answer) == Call(op, sku, ids, form, answer)

\* the helper call that made the requests cs
HelperCall(fn, cs, outcome) ==
  [ fn |-> fn, phase |-> "ended", attempt |-> Len(cs),
    sent |-> [ k \in 1..Len(cs) |-> cs[k].field ],
    answers |-> [ k \in 1..Len(cs) |-> cs[k].value ],
    sleeps |-> << >>, outcome |-> outcome ]

\* get_inventory_item_prices: GET, then the legacy form when the GET did not
\* answer 200 with JSON; a transport error of the GET is not caught
get_inventory_item_prices(sku, sid, g, p) ==
  LET get  == Fetch("LW_PRICES", sku, << sid >>, "GET", g)
      post == Fetch("LW_PRICES", sku, << sid >>, "POST request=", p)
  IN CASE g = "rows"    -> [ raised |-> FALSE, rows |-> ChannelRows(sid), cs |-> << get >> ]
       [] g = "timeout" -> [ raised |-> TRUE,  rows |-> << >>, cs |-> << get >> ]
       [] g = "fail"    ->
            [ raised |-> p = "error",
              rows   |-> IF p = "rows" THEN ChannelRows(sid) ELSE << >>,
              cs     |-> << get, post >> ]

TitleForms == << "form_request_StockItemIds", "form_request_ids", "form_StockItemIds",
                 "json_StockItemIds", "json_ids" >>

\* get_titles_by_ids: the POST forms in order until one gives a title, then a
\* GET per id
get_titles_by_ids(ids, as, g) ==
  LET accepted == { k \in 1..Len(TitleForms) : as[k] = "rows" }
      n        == IF accepted = {} THEN Len(TitleForms)
                  ELSE CHOOSE k \in accepted : \A m \in accepted : k <= m
      posts    == [ k \in 1..n |-> Fetch("LW_ITEMS_FULL", "", ids, TitleForms[k], as[k]) ]
      gets     == [ j \in 1..Len(ids) |-> Fetch("LW_TITLES", "", << ids[j] >>, "GET", g) ]
  IN [ cs     |-> IF accepted = {} THEN posts \o gets ELSE posts,
       titled |-> accepted # {} \/ g = "rows" ]

\* get_inventory_items_by_ids over _try_post: the JSON body, posted again after
\* a failure, then the legacy form in the same way
get_inventory_items_by_ids(ids, e) ==
  LET J(a) == Fetch("LW_ITEMS_BY_IDS", "", ids, "json", a)
      L(a) == Fetch("LW_ITEMS_BY_IDS", "", ids, "request=", a)
  IN [ raised |-> e = "fail",
       cs |-> CASE e = "ok"              -> << J("rows") >>
                [] e = "retry_ok"        -> << J("error"), J("rows") >>
                [] e = "legacy_ok"       -> << J("error"), J("error"), L("rows") >>
                [] e = "legacy_retry_ok" -> << J("error"), J("error"), L("error"), L("rows") >>
                [] e = "fail"            -> << J("error"), J("error"), L("error"),
                                               L("error") >> ]

\* download_ebay_prices_with_title main, step 2: titles of all the ids; buffer
\* keeps whether id_to_title has them
EX_Titles ==
  /\ script = "download_ebay_prices_with_title" /\ pc = "titles"
  /\ LET all_ids == sku_to_id["A"] \o sku_to_id["B"] IN
     IF all_ids = << >>
     THEN UNCHANGED << calls, http, buffer >>
     ELSE \E as \in [ 1..Len(TitleForms) -> {"error", "empty", "rows"} ],
             g \in {"rows", "fail"} :
            LET r == get_titles_by_ids(all_ids, as, g)
            IN /\ calls' = calls \o r.cs
               /\ http' = HelperCall("get_titles_by_ids", r.cs, "returned")
               /\ buffer' = << r.titled >>
  /\ pc' = "prices"
  /\ UNCHANGED << script, cfg, world, shop, run, i, budget, skus, sku_to_id,
                  updated_products, tracker, csvlog, rows >>

\* download_ebay_prices / download_ebay_prices_with_title main: the price of
\* one key
EX_Price ==
  /\ script \in {"download_ebay_prices", "download_ebay_prices_with_title"}
  /\ pc = "prices" /\ i <= Len(skus)
  /\ LET sku == skus[i]
         ids == sku_to_id[sku]
         Row(price) == IF script = "download_ebay_prices"
                       THEN [ SKU |-> sku, Price |-> price ]
                       ELSE [ SKU |-> sku, Price |-> price,
                              Title |-> IF ids # << >> /\ buffer = << TRUE >>
                                        THEN "t" ELSE "" ]
     IN IF ids = << >>
        THEN rows' = Append(rows, Row("")) /\ UNCHANGED << calls, http >>
        ELSE \E g \in {"rows", "fail", "timeout"}, p \in {"rows", "empty", "error"} :
               LET r     == get_inventory_item_prices(sku, ids[1], g, p)
                   price == pick_channel_price(r.rows, CHANNEL_SOURCE, CHANNEL_SUBSOURCE)
               IN /\ calls' = calls \o r.cs
                  /\ http' = HelperCall("get_inventory_item_prices", r.cs,
                                        IF r.raised THEN "raised" ELSE "returned")
                  /\ rows' = Append(rows, Row(IF r.raised \/ price = "None" THEN ""
                                              ELSE price))
  /\ i' = i + 1
  /\ pc' = IF i = Len(skus) THEN "write" ELSE "prices"
  /\ UNCHANGED << script, cfg, world, shop, run, budget, skus, sku_to_id,
                  updated_products, buffer, tracker, csvlog >>

\* linnworks_fetch_by_sku main, step 2: one (SKU, id) pair per id, a sample
\* request for the first id and one batch request for all of them
EX_Details ==
  /\ script = "linnworks_fetch_by_sku" /\ pc = "details"
  /\ LET PairsOf(sku) == IF sku_to_id[sku] = << >>
                         THEN << [ SKU |-> sku, StockItemId |-> "None" ] >>
                         ELSE [ n \in 1..Len(sku_to_id[sku]) |->
                                  [ SKU |-> sku, StockItemId |-> sku_to_id[sku][n] ] ]
         all_pairs == PairsOf("A") \o PairsOf("B")
         ids_only  == sku_to_id["A"] \o sku_to_id["B"]
         Outcomes  == {"ok", "retry_ok", "legacy_ok", "legacy_retry_ok", "fail"}
     IN IF ids_only = << >>
        THEN rows' = all_pairs /\ pc' = "write" /\ UNCHANGED << calls, http >>
        ELSE \E e1 \in Outcomes, e2 \in Outcomes :
               LET sample == get_inventory_items_by_ids(SubSeq(ids_only, 1, 1), e1)
                   batch  == get_inventory_items_by_ids(ids_only, e2)
                   cs     == IF sample.raised THEN sample.cs ELSE sample.cs \o batch.cs
                   raised == sample.raised \/ batch.raised
               IN /\ calls' = calls \o cs
                  /\ http' = HelperCall("get_inventory_items_by_ids",
                                        IF sample.raised THEN sample.cs ELSE batch.cs,
                                        IF raised THEN "raised" ELSE "returned")
                  /\ rows' = IF raised THEN rows ELSE all_pairs
                  /\ pc' = IF raised THEN "fatal" ELSE "write"
  /\ UNCHANGED << script, cfg, world, shop, run, i, budget, skus, sku_to_id,
                  updated_products, buffer, tracker, csvlog >>

\* linnworks_specification main: the description of one key
EX_Description ==
  /\ script = "linnworks_specification" /\ pc = "descriptions" /\ i <= Len(skus)
  /\ LET sku == skus[i]
         ids == sku_to_id[sku]
     IN IF ids = << >>
        THEN /\ rows' = Append(rows, [ SKU |-> sku, Description |-> "Not Found" ])
             /\ UNCHANGED << calls, http >>
        ELSE \E g \in {"rows", "fail"} :
               LET get == Fetch("LW_DESC", sku, << ids[1] >>, "GET", g)
               IN /\ calls' = Append(calls, get)
                  /\ http' = HelperCall("get_item_descriptions", << get >>,
                                        IF g = "fail" THEN "raised" ELSE "returned")
                  /\ rows' = Append(rows,
                       [ SKU |-> sku,
                         Description |->
                           IF g = "fail" THEN "Error: HTTP"
                           ELSE pick_channel_description(ChannelRows(ids[1]),
                                                         CHANNEL_SOURCE, CHANNEL_SUBSOURCE) ])
  /\ i' = i + 1
  /\ pc' = IF i = Len(skus) THEN "write" ELSE "descriptions"
  /\ UNCHANGED << script, cfg, world, shop, run, budget, skus, sku_to_id,
                  updated_products, buffer, tracker, csvlog >>

\* the output CSV is written anew from the rows
EX_Write ==
  /\ script \in Exporters /\ pc = "write"
  /\ tracker' = rows
  /\ pc' = "done"
  /\ UNCHANGED << script, cfg, world, shop, run, i, budget, calls, skus, sku_to_id,
                  updated_products, buffer, csvlog, rows, http >>

\* ========================================================== input reading
\* The readers of the key column: the title job (workbook), update_main_image
\* (CSV) and the uploader (CSV rows)
Readers == { "title", "update_main_image", "trees" }

\* read_skus_from_excel: cells without a value are passed over, the others are
\* stripped, blank ones dropped, then first occurrences kept
read_skus_from_excel(cells) ==
  unique(NonBlank(StripAll(SelectSeq(cells, LAMBDA c : c # Empty))))

\* update_main_image load_skus: stripped, blank ones dropped, first occurrences
load_skus(cells) == unique(NonBlank(StripAll(cells)))

\* the SKU column of the uploader's load_rows: one row per line, stripped
load_rows_skus(cells) == StripAll(cells)

\* the reader of a script builds its key list from the column
Read(f, reader(_)) ==
  /\ pc = "start" /\ script = f
  /\ skus' = reader(rows)
  /\ pc' = "read"
  /\ UNCHANGED << script, cfg, world, shop, run, i, budget, calls, sku_to_id,
                  updated_products, buffer, tracker, csvlog, rows, http >>

RD_Excel    == Read("title", read_skus_from_excel)
RD_LoadSkus == Read("update_main_image", load_skus)
RD_LoadRows == Read("trees", load_rows_skus)

\* ========================================================== variant search
\* The lookups of a variant by SKU: the title job (REST /variants.json, then a
\* scan of /products.json), the uploader (GraphQL productVariants, first: 1)
\* and verify_shopify_by_sku (REST /variants.json, limit 1)
Finders == { "title", "trees", "verify_shopify_by_sku" }

\* SKUs a variant of the store may carry, and the variants a search may return:
\* the search is the store's, so a variant returned need not carry the SKU asked
VariantSkus == { <<"A">>, <<"A", WS>>, <<"A", "B">>, <<"B">> }
Variants    == [ sku : VariantSkus, product_id : 1..2 ]
SkuIndex(s) == CHOOSE k \in 1..4 : <<<<"A">>, <<"A", WS>>, <<"A", "B">>, <<"B">>>>[k] = s
Vid(v)      == 10 * v.product_id + SkuIndex(v.sku)
NoVariant   == << 0, 0 >>

\* first element of a list of variants with exactly this SKU after stripping
RECURSIVE first_exact(_, _)
first_exact(arr, sku) ==
  IF arr = << >> THEN NoVariant
  ELSE IF Strip(Head(arr).sku) = sku THEN << Head(arr).product_id, Vid(Head(arr)) >>
  ELSE first_exact(Tail(arr), sku)

\* title job, lines 308-343: the answer is checked variant by variant; without
\* an exact match the products of the store are scanned the same way
title_find_variant(arr, scan, sku) ==
  IF first_exact(arr, sku) # NoVariant THEN first_exact(arr, sku)
  ELSE first_exact(scan, sku)

\* uploader, lines 131-157: a blank SKU gives none, otherwise the first edge
\* of the answer is taken
ct_find_variant(arr, sku) ==
  IF Strip(sku) = Empty THEN NoVariant
  ELSE IF arr = << >> THEN NoVariant
  ELSE << arr[1].product_id, Vid(arr[1]) >>

\* verify_shopify_by_sku, lines 26-30: arr[0] if arr else None
get_variant_by_sku(arr) ==
  IF arr = << >> THEN NoVariant ELSE << arr[1].product_id, Vid(arr[1]) >>

\* one lookup: `rows` is the answer of the search, `tracker` the variants of
\* the scanned products, `skus` holds the SKU asked for
Find(f, result) ==
  /\ pc = "start" /\ script = f
  /\ buffer' = << result >>
  /\ pc' = "found"
  /\ UNCHANGED << script, cfg, world, shop, run, i, budget, calls, skus, sku_to_id,
                  updated_products, tracker, csvlog, rows, http >>

FV_Title  == Find("title", title_find_variant(rows, tracker, skus[1]))
FV_Trees  == Find("trees", ct_find_variant(rows, skus[1]))
FV_Verify == Find("verify_shopify_by_sku", get_variant_by_sku(rows))

\* ============================================================ collections
\* ensure_collection of the collection sync and of the uploader, against a
\* store that already holds custom collections
Ensurers == { "sync", "trees" }

COLLECTION_PAGE     == 2          \* limit=250 of the listing, scaled
DRY_COLLECTION_ID   == 999000000  \* id returned under DRY_RUN
MaxEnsure           == 3          \* calls of ensure_collection in one run

\* titles of collections: two spellings of one title, a padded one, another
CollectionTitles == { <<"Trees">>, <<"trees">>, <<"Trees", WS>>, <<"Other">>, <<"Misc">> }

\* str.lower() on the titles that occur
LowerTitle(t) == [ k \in 1..Len(t) |-> IF t[k] = "Trees" THEN "trees" ELSE t[k] ]

\* the key under which two titles are the same collection
TitleKey(t) == LowerTitle(Strip(t))

\* GET /custom_collections.json?limit=250: the first page of the store's
\* collections, and no request for a further page
list_collections(store) == SubSeq(store, 1, Min(Len(store), COLLECTION_PAGE))

\* id of the first listed collection with this title, 0 without one
RECURSIVE collection_id_by_title(_, _)
collection_id_by_title(cols, title) ==
  IF cols = << >> THEN 0
  ELSE IF TitleKey(Head(cols).title) = TitleKey(title) THEN Head(cols).id
  ELSE collection_id_by_title(Tail(cols), title)

\* ensure_collection(title): the id found on the listing, the dry-run id, or
\* the id of a collection created with the title (the sync strips it first)
ensure_collection(f, title) ==
  LET clean == IF f = "sync" THEN Strip(title) ELSE title
      found == collection_id_by_title(list_collections(rows), clean)
      newid == Len(rows) + 1
  IN
  /\ pc = "start" /\ script = f /\ Len(buffer) < MaxEnsure
  /\ IF found # 0
     THEN rows' = rows /\ buffer' = Append(buffer, [ title |-> title, id |-> found ])
     ELSE IF cfg.dry
     THEN rows' = rows
          /\ buffer' = Append(buffer, [ title |-> title, id |-> DRY_COLLECTION_ID ])
     ELSE rows' = Append(rows, [ id |-> newid, title |-> clean ])
          /\ buffer' = Append(buffer, [ title |-> title, id |-> newid ])
  /\ UNCHANGED << script, cfg, world, shop, run, pc, i, budget, calls, skus, sku_to_id,
                  updated_products, tracker, csvlog, http >>

EC_Sync  == \E title \in CollectionTitles : ensure_collection("sync", title)
EC_Trees == \E title \in { <<"Trees">>, <<"trees">> } : ensure_collection("trees", title)

\* ================================================================ collects
\* attach_to_collection of the collection sync and of the uploader, against a
\* store that answers the POST of a collect
Attachers == { "sync", "trees" }

MaxAttach == 3    \* calls of attach_to_collection in one run

\* what the store answers to POST /collects.json once req has done its
\* retries: created, one of the two wordings for a link that exists, a 422 for
\* another reason, not found, or a retryable status to the last attempt
Created        == [ status |-> 201, body |-> << >> ]
AlreadyExists  == [ status |-> 422, body |-> << "already exists" >> ]
AlreadyTaken   == [ status |-> 422, body |-> << "has already been taken" >> ]
CollectAnswers == { Created, AlreadyExists, AlreadyTaken,
                    [ status |-> 422, body |-> << "is invalid" >> ],
                    [ status |-> 404, body |-> << "Not Found" >> ],
                    [ status |-> 503, body |-> << >> ] }

\* the answers the store can give for a pair that is linked, and for one that is not
StoreAnswers(linked) ==
  IF linked THEN { a \in CollectAnswers : a.status # 201 /\ a.body # << "is invalid" >> }
  ELSE { a \in CollectAnswers : a \notin { AlreadyExists, AlreadyTaken } }

StatusText(n) == CASE n = 201 -> "201" [] n = 404 -> "404" [] n = 422 -> "422"
                   [] n = 503 -> "503" [] OTHER -> "0"

\* req: the text of the RuntimeError for an answer that is not a success
\* (f"{status} after retries: {text}" or f"HTTP {status} POST /collects.json -> {text}")
error_message(a) ==
  IF a.status \in RETRY_STATUS THEN << StatusText(a.status), "after retries:" >> \o a.body
  ELSE << "HTTP", StatusText(a.status), "POST", "/collects.json", "->" >> \o a.body

InMsg(tok, msg) == \E k \in 1..Len(msg) : msg[k] = tok

\* an except clause that swallows every 422
collect_error_swallowed_any422(msg) == InMsg("422", msg)

\* the except clause of attach_to_collection: which RuntimeError is swallowed
collect_error_swallowed(msg) ==
  InMsg("422", msg) /\ (InMsg("already exists", msg) \/ InMsg("has already been taken", msg))

\* attach_to_collection(product_id, collection_id): `rows` holds the collects
\* of the store, `buffer` what each call met and how it ended
at_attach(f, pid, a) ==
  LET linked == \E k \in 1..Len(rows) : rows[k] = pid
      asked  == ~(f = "sync" /\ pid = 0) /\ ~cfg.dry
      ended  == IF ~asked \/ a.status < 300 THEN "returned"
                ELSE IF collect_error_swallowed(error_message(a)) THEN "returned"
                ELSE "raised"
  IN
  /\ pc = "start" /\ script = f /\ Len(buffer) < MaxAttach
  /\ asked => a \in StoreAnswers(linked)
  /\ ~asked => a = Created
  /\ rows' = IF asked /\ a.status = 201 THEN Append(rows, pid) ELSE rows
  /\ buffer' = Append(buffer, [ pid |-> pid, asked |-> asked, linked |-> linked,
                                answer |-> a, ended |-> ended ])
  /\ calls' = IF asked THEN Append(calls, Call("SH_POST_COLLECT", "", pid, "collect", Empty))
              ELSE calls
  /\ UNCHANGED << script, cfg, world, shop, run, pc, i, budget, skus, sku_to_id,
                  updated_products, tracker, csvlog, http >>

AT_Sync  == \E pid \in 0..2, a \in CollectAnswers : at_attach("sync", pid, a)
AT_Trees == \E pid \in 1..2, a \in CollectAnswers : at_attach("trees", pid, a)

\* ================================================================== images
\* upload_images_to_product against the image objects the store lists: an
\* image has an alt text or none, and a src whose last path segment is the
\* file name, with or without a version query behind it
ImageFiles  == { "i1.jpg", "i2.jpg", "x.jpg" }
ImageAlts   == { "", "front" }
StoreImages == [ alt : ImageAlts, file : ImageFiles, versioned : BOOLEAN ]

\* os.path.basename(img["src"])
src_basename(img) == IF img.versioned THEN << img.file, "?v=1" >> ELSE << img.file >>

\* lines 224-225: alt or filename or basename(src); the store's image objects
\* have no filename field.  The names of the model are lower case already
existing_name(img) == IF img.alt # "" THEN << img.alt >> ELSE src_basename(img)

\* lines 227-243: nothing at the limit, otherwise the payloads whose filename
\* is not among the existing names, cut to the room left
images_to_upload(existing, images) ==
  LET names == { existing_name(existing[k]) : k \in 1..Len(existing) }
      total == Len(existing)
      fresh == SelectSeq(images, LAMBDA x : ~(x # "" /\ << x >> \in names))
      room  == Max(0, IMAGE_LIMIT - total)
  IN IF total >= IMAGE_LIMIT THEN << >> ELSE SubSeq(fresh, 1, Min(Len(fresh), room))

RECURSIVE Stored(_, _)
Stored(files, versioned) ==
  IF files = << >> THEN << >>
  ELSE << [ alt |-> "", file |-> Head(files), versioned |-> versioned ] >>
       \o Stored(Tail(files), versioned)

\* upload_images_to_product(product_id, images), once per run of the uploader:
\* `rows` holds the images of the product, `tracker` the payloads of the folder
UI_Upload ==
  /\ script = "trees" /\ pc \in { "start", "again" }
  /\ \E versioned \in BOOLEAN :
       LET to_upload == IF tracker = << >> THEN << >> ELSE images_to_upload(rows, tracker)
           listed    == IF tracker = << >> THEN << >>
                        ELSE << Call("SH_LIST_IMAGES", "", 1, "images", Empty) >>
           posted    == IF cfg.dry THEN << >>
                        ELSE [ k \in 1..Len(to_upload) |->
                                 Call("SH_POST_IMAGE", "", 1, "image", << to_upload[k] >>) ]
       IN
       /\ cfg.dry => versioned
       /\ calls' = calls \o listed \o posted
       /\ rows' = IF cfg.dry THEN rows ELSE rows \o Stored(to_upload, versioned)
  /\ pc' = IF pc = "start" THEN "again" ELSE "done"
  /\ run' = IF pc = "start" THEN "second" ELSE run
  /\ UNCHANGED << script, cfg, world, shop, i, budget, skus, sku_to_id,
                  updated_products, buffer, tracker, csvlog, http >>

\* ============================================================== main image
\* update_main_image: fix_main_image_for_sku for one SKU whose product holds
\* the images `rows`, in the order of their positions (position k = place k)
MainFiles == { "m.jpg", "o.jpg" }

\* infer_shopify_filename_from_src: the last path segment without the version
\* query; the names of the model are lower case already
infer_shopify_filename_from_src(src) == Head(src)

\* a scan that promotes the matching image whether or not it is first already
reorder_target_unchecked(imgs, desired) ==
  LET hits == { k \in 1..Len(imgs) : infer_shopify_filename_from_src(imgs[k].src) = desired }
  IN IF hits = {} THEN 0 ELSE imgs[CHOOSE k \in hits : \A h \in hits : h <= k].id

\* lines 456-480: match_id is the id of the last image whose name is the
\* wanted one, already_main is set when any such image has position 1; the id
\* to promote, 0 for none
reorder_target(imgs, desired) ==
  LET hits == { k \in 1..Len(imgs) : infer_shopify_filename_from_src(imgs[k].src) = desired }
      match_id     == IF hits = {} THEN 0
                      ELSE imgs[CHOOSE k \in hits : \A h \in hits : h <= k].id
      already_main == 1 \in hits
  IN IF match_id = 0 \/ already_main THEN 0 ELSE match_id

\* the store moves the image to position 1 and shifts the others down
Promote(imgs, id) ==
  SelectSeq(imgs, LAMBDA x : x.id = id) \o SelectSeq(imgs, LAMBDA x : x.id # id)

\* fix_main_image_for_sku(sku): `skus` holds the main file name Linnworks gave
\* ("" for none), world.bare says that the store has no product for the SKU
FM_Fix ==
  /\ script = "update_main_image" /\ pc \in { "start", "again" }
  /\ \E put \in { "ok", "err" } :
       LET desired == skus[1]
           target  == IF desired = "" \/ world.bare \/ rows = << >> THEN 0
                      ELSE reorder_target(rows, desired)
           reads   == IF desired = "" THEN << >>
                      ELSE IF world.bare THEN << Call("SH_FIND_PRODUCT", "S1", 0, "sku", Empty) >>
                      ELSE << Call("SH_FIND_PRODUCT", "S1", 0, "sku", Empty),
                              Call("SH_LIST_IMAGES", "S1", 1, "images", Empty) >>
           write   == IF target = 0 \/ cfg.dry THEN << >>
                      ELSE << Call("SH_PUT_IMAGE", "S1", target, "position", << "1" >>) >>
       IN
       /\ write = << >> => put = "ok"
       /\ calls' = calls \o reads \o write
       /\ rows' = IF write # << >> /\ put = "ok" THEN Promote(rows, target) ELSE rows
       /\ buffer' = Append(buffer, IF write = << >> THEN "none" ELSE put)
  /\ pc' = IF pc = "start" THEN "again" ELSE "done"
  /\ run' = IF pc = "start" THEN "second" ELSE run
  /\ UNCHANGED << script, cfg, world, shop, i, budget, skus, sku_to_id,
                  updated_products, tracker, csvlog, http >>

\* ============================================================== pagination
\* sh_paginate_products_empty_desc against a store whose products come in
\* pages: `rows` holds the pages, a page being the list of its products; the
\* url of a page is its number
MaxPages     == 3    \* pages of products in the store
MaxRateLimit == 1    \* 429 answers in one scan

PageBodies == { Empty, << WS >>, << "d" >> }

\* the Link header the store sends with page k of n: a previous part behind
\* the first page, a next part before the last one
link_header(k, n) ==
  (IF k > 1 THEN << [ url |-> k - 1, rel |-> "previous" ] >> ELSE << >>)
  \o (IF k < n THEN << [ url |-> k + 1, rel |-> "next" ] >> ELSE << >>)

\* a scan that never finds a next url
next_url_never(link) == 0

\* lines 403-415: without a part with rel="next" the scan is over (0),
\* otherwise the url of the last such part
next_url_of(link) ==
  LET nexts == { k \in 1..Len(link) : link[k].rel = "next" }
  IN IF nexts = {} THEN 0 ELSE link[CHOOSE k \in nexts : \A h \in nexts : h <= k].url

\* lines 398-401: the products of a page whose stripped body_html is empty
empty_desc_products(prods) == SelectSeq(prods, LAMBDA p : Strip(p.body) = Empty)

\* one pass of the while loop: the request for the page at the cursor `i`
\* and what the generator does with the answer
PG_Request ==
  /\ script = "desc" /\ pc = "scan"
  /\ \E a \in { 200, 429, 503 } :
       LET nxt == next_url_of(link_header(i, Len(rows))) IN
       /\ a = 429 => budget > 0
       /\ budget' = IF a = 429 THEN budget - 1 ELSE budget
       /\ http' = [ http EXCEPT !.sent    = Append(@, i),
                                !.answers = Append(@, a),
                                !.sleeps  = IF a = 429 THEN Append(@, RATE_LIMIT_SLEEP_MS)
                                            ELSE @ ]
       /\ buffer' = IF a = 200 THEN buffer \o empty_desc_products(rows[i]) ELSE buffer
       /\ i' = IF a = 200 /\ nxt # 0 THEN nxt ELSE i
       /\ pc' = CASE a = 429 -> "scan"
                  [] a = 503 -> "raised"
                  [] OTHER   -> IF nxt = 0 THEN "done" ELSE "scan"
  /\ UNCHANGED << script, cfg, world, shop, run, calls, skus, sku_to_id,
                  updated_products, tracker, csvlog, rows >>

\* ================================================= LLM normalization job
\* repeat_task.py: `rows` is the data frame (and, saved after every row, the
\* file), `tracker` the file as the run found it, `i` the row of the loop,
\* `budget` processed_count, `run` the number of the run
MaxRows             == 3    \* rows of the input file
MaxRuns             == 2    \* runs of the job over the file
MAX_ROWS_TO_PROCESS == 2    \* 590 rows per run, scaled

CONNECTION_ERROR == "OLLAMA_CONNECTION_ERROR"

\* what get_response_from_ollama and normalize_spec_output leave of a call:
\* specifications, nothing meaningful, or the marker after max_retries failures
Replies == { "Specifications", "", CONNECTION_ERROR }

\* a test that takes every filled output column for done
needs_model_if_blank(desc, existing) == desc # "" /\ existing = ""

\* main, lines 205-212: a row is sent when its description is not blank and
\* its output column is blank or holds the marker
needs_model(desc, existing) ==
  desc # "" /\ ~(existing # "" /\ existing # CONNECTION_ERROR)

\* main: one pass of the loop over the rows
LL_Row ==
  /\ script = "repeat_task" /\ pc = "rows" /\ i <= Len(rows)
  /\ budget < MAX_ROWS_TO_PROCESS
  /\ IF needs_model(rows[i].desc, rows[i].out)
     THEN \E reply \in Replies :
            /\ calls' = Append(calls, [ row |-> i, run |-> run ])
            /\ rows' = [ rows EXCEPT ![i].out = reply ]
            /\ budget' = budget + 1
     ELSE UNCHANGED << calls, rows, budget >>
  /\ i' = i + 1
  /\ UNCHANGED << script, cfg, world, shop, run, pc, skus, sku_to_id,
                  updated_products, buffer, tracker, csvlog, http >>

\* main: the loop ends at the last row or at the limit; the final save
LL_Done ==
  /\ script = "repeat_task" /\ pc = "rows"
  /\ i > Len(rows) \/ budget >= MAX_ROWS_TO_PROCESS
  /\ pc' = "done"
  /\ UNCHANGED << script, cfg, world, shop, run, i, budget, calls, skus, sku_to_id,
                  updated_products, buffer, tracker, csvlog, rows, http >>

\* the job is started again on the file it saved
LL_Rerun ==
  /\ script = "repeat_task" /\ pc = "done" /\ run < MaxRuns
  /\ run' = run + 1
  /\ tracker' = rows
  /\ pc' = "rows"
  /\ i' = 1
  /\ budget' = 0
  /\ UNCHANGED << script, cfg, world, shop, calls, skus, sku_to_id,
                  updated_products, buffer, csvlog, rows, http >>

\* ======================================================== second invocation

\* The job is started again on the same input: the remote systems and the
\* files on disk are as the first run left them, the process state is fresh
Restart ==
  /\ pc = "done" /\ run = "first"
  /\ run' = "second"
  /\ pc' = "start"
  /\ i' = 1
  /\ sku_to_id' = NoIds
  /\ updated_products' = {}
  /\ buffer' = << >>
  /\ rows' = << >>
  /\ UNCHANGED << http, script, cfg, world, shop, budget, calls, skus, tracker, csvlog >>

\* The job is started again on the same input without the dry-run switch,
\* after a dry run, which has left the remote systems as it found them
RestartLive ==
  /\ pc = "done" /\ run = "first" /\ cfg.dry
  /\ run' = "second"
  /\ cfg' = [ cfg EXCEPT !.dry = FALSE ]
  /\ pc' = "start"
  /\ i' = 1
  /\ sku_to_id' = NoIds
  /\ updated_products' = {}
  /\ buffer' = << >>
  /\ rows' = << >>
  /\ UNCHANGED << http, script, world, shop, budget, calls, skus, tracker, csvlog >>

\* After a dry run in process mode the job is started again, live, in update mode
RestartUpdate ==
  /\ script = "desc" /\ pc = "done" /\ run = "first" /\ cfg.dry
  /\ run' = "second"
  /\ cfg' = [ cfg EXCEPT !.dry = FALSE, !.mode = "update" ]
  /\ pc' = "start"
  /\ i' = 1
  /\ sku_to_id' = NoIds
  /\ updated_products' = {}
  /\ buffer' = << >>
  /\ rows' = << >>
  /\ UNCHANGED << http, script, world, shop, budget, calls, skus, tracker, csvlog >>

\* After a live run in process mode the job is started again in update mode
RestartUpdateLive ==
  /\ script = "desc" /\ pc = "done" /\ run = "first" /\ ~cfg.dry
  /\ run' = "second"
  /\ cfg' = [ cfg EXCEPT !.mode = "update" ]
  /\ pc' = "start"
  /\ i' = 1
  /\ sku_to_id' = NoIds
  /\ updated_products' = {}
  /\ buffer' = << >>
  /\ rows' = << >>
  /\ UNCHANGED << http, script, world, shop, budget, calls, skus, tracker, csvlog >>

\* ===================================================================== Init
InputLists == { [ k \in 1..n |-> SkuNames[k] ] : n \in 1..MaxKeys }

TitleVals == { Empty, <<"a">> }

InList(seq, x) == \E n \in 1..Len(seq) : seq[n] = x

\* Remote data no call of the run can observe is fixed, so that two initial
\* states never differ only in something the job cannot read: a SKU outside
\* the input is unknown to Linnworks, a SKU without a title in Linnworks is
\* not looked up in Shopify, products are numbered in order of first use, and a
\* product without an input SKU has blank fields.
TitleWorldOk(w, in) ==
  \A s \in Skus :
    /\ ~InList(in, s) => w.lw[s] = "unknown"
    /\ w.lw[s] \in {"unknown", "none"} => w.prod[s] = 0
    /\ w.prod[s] # 0 =>
         \A p \in 1..(w.prod[s] - 1) :
           \E t \in Skus : KeyIndex(t) < KeyIndex(s) /\ w.prod[t] = p

TitleShopOk(w, sh) ==
  /\ \A s \in Skus : w.prod[s] = 0 => sh.option1[s] = Empty
  /\ \A p \in Products :
       (\A s \in Skus : w.prod[s] # p) => sh.title[p] = Empty

InitTitle ==
  /\ script = "title"
  \* FORCE_UPDATE and --force are or-ed (line 559): the flag stands for both;
  \* neither is read in --variant-option1 mode
  /\ cfg \in [ dry : BOOLEAN, force : BOOLEAN, force_env : {FALSE}, variant : BOOLEAN,
             mode : {"process"} ]
  /\ cfg.variant => ~cfg.force
  /\ skus \in InputLists
  /\ world \in [ lw : [Skus -> LwProfiles], prod : [Skus -> 0..MaxKeys],
                 bare : {FALSE} ]
  /\ TitleWorldOk(world, skus)
  /\ shop \in [ title : [Products -> TitleVals], body : [Products -> {Empty}],
                option1 : [Skus -> TitleVals], price : {NoText},
                created : {NoIds}, images : {NoImages}, coll : {FALSE},
                collects : {{}} ]
  /\ TitleShopOk(world, shop)
  /\ cfg.variant  => \A p \in Products : shop.title[p] = Empty
  /\ ~cfg.variant => \A s \in Skus : shop.option1[s] = Empty

BodyVals == { Empty, <<"x">> }

\* A SKU that is on no product with an empty description is never looked up in
\* Linnworks; a product that does not exist has blank fields.  A product that
\* has a description is not a candidate, so the scan never shows it to the job:
\* one such product (the first) is enough to have the scan filter something.
DescWorldOk(w) ==
  \A s \in Skus :
    w.prod[s] # 0 =>
      \A p \in 1..(w.prod[s] - 1) :
        \E t \in Skus : KeyIndex(t) < KeyIndex(s) /\ w.prod[t] = p

DescShopOk(w, sh) ==
  /\ \A s \in Skus :
       (w.prod[s] = 0 \/ sh.body[w.prod[s]] # Empty) => w.lw[s] = "unknown"
  /\ \A p \in Products :
       ~(\E s \in Skus : w.prod[s] = p) => sh.body[p] = Empty
  /\ \A p \in Products : p > 1 => sh.body[p] = Empty

InitDesc ==
  /\ script = "desc"
  \* FORCE_UPDATE is read from the environment and only printed (line 785), so
  \* it is varied where it could matter: live runs without --force
  /\ cfg \in [ dry : BOOLEAN, force : BOOLEAN, force_env : BOOLEAN, variant : {FALSE},
             mode : {"process"} ]
  /\ cfg.force_env => ~cfg.dry /\ ~cfg.force
  /\ skus = << >>
  /\ world \in [ lw : [Skus -> LwProfiles], prod : [Skus -> 0..MaxKeys],
                 bare : BOOLEAN ]
  /\ DescWorldOk(world)
  /\ shop \in [ title : [Products -> {Empty}], body : [Products -> BodyVals],
                option1 : [Skus -> {Empty}], price : {NoText},
                created : {NoIds}, images : {NoImages}, coll : {FALSE},
                collects : {{}} ]
  /\ DescShopOk(world, shop)

ImageSets == { {}, {"i1"}, {"i0"}, {"i0", "i9"} }

\* The uploader never reads a title, a description or a price, and lists the
\* images only of products whose SKU has local image files.
TreesWorldOk(w) ==
  \A s \in Skus :
    w.prod[s] # 0 =>
      \A p \in 1..(w.prod[s] - 1) :
        \E t \in Skus : KeyIndex(t) < KeyIndex(s) /\ w.prod[t] = p

TreesShopOk(w, sh) ==
  /\ \A p \in Products :
       (\A s \in Skus : w.prod[s] = p => ~OnChannel(s)) => sh.images[p] = {}
  /\ sh.collects \subseteq { w.prod[s] : s \in Skus } \ {0}
  /\ ~sh.coll => sh.collects = {}

InitTrees ==
  /\ script = "trees"
  /\ cfg \in [ dry : BOOLEAN, force : {FALSE}, force_env : {FALSE}, variant : {FALSE},
             mode : {"process"} ]
  /\ skus = << >>
  /\ world \in [ lw : {[ s \in Skus |-> "unknown" ]}, prod : [Skus -> 0..MaxKeys],
                 bare : {FALSE} ]
  /\ TreesWorldOk(world)
  /\ shop \in [ title : [Products -> {Empty}], body : [Products -> {Empty}],
                option1 : [Skus -> {Empty}], price : {NoText},
                created : {NoIds}, images : [Products -> ImageSets], coll : BOOLEAN,
                collects : SUBSET (1..MaxKeys) ]
  /\ TreesShopOk(world, shop)

InitCommon ==
  /\ run = "first"
  /\ pc = "start"
  /\ i = 1
  /\ calls = << >>
  /\ sku_to_id = NoIds
  /\ updated_products = {}
  /\ buffer = << >>
  /\ tracker = << >>
  /\ csvlog = << >>
  /\ rows = << >>
  /\ http = NoHttp

\* One invocation; the remote systems may fail up to MaxFaults calls
Init ==
  /\ (InitTitle \/ InitDesc \/ InitTrees)
  /\ InitCommon
  /\ budget = MaxFaults

\* Two invocations in a row against remote systems that answer every call
InitTwice ==
  /\ (InitTitle \/ InitDesc \/ InitTrees)
  /\ InitCommon
  /\ budget = 0

Next ==
  \/ TF_Start
  \/ TF_ResolveBatch
  \/ TF_Key
  \/ TF_FinalFlush
  \/ DU_Discover
  \/ DU_PopulateStart
  \/ DU_ResolveBatch
  \/ DU_PopulateRow
  \/ DU_PopulateDone
  \/ DU_UpdateRow
  \/ DU_UpdateDone
  \/ DU_VerifyRow
  \/ DU_VerifyDone
  \/ CT_Start
  \/ CT_Key
  \/ CT_Done

Spec == Init /\ [][Next]_vars

NextTwice ==
  \/ Next
  \/ Restart

SpecTwice == InitTwice /\ [][NextTwice]_vars

\* A dry run followed by a live run, against remote systems that answer every call
InitDryLive ==
  /\ InitTwice
  /\ cfg.dry

NextDryLive ==
  \/ Next
  \/ RestartLive

SpecDryLive == InitDryLive /\ [][NextDryLive]_vars

\* The description updater: a dry run in process mode, then --mode update, live
InitStaged ==
  /\ InitDryLive
  /\ script = "desc"

NextStaged ==
  \/ DU_Discover
  \/ DU_PopulateStart
  \/ DU_ResolveBatch
  \/ DU_PopulateRow
  \/ DU_PopulateDone
  \/ DU_UpdateRow
  \/ DU_UpdateDone
  \/ DU_VerifyRow
  \/ DU_VerifyDone
  \/ RestartUpdate
  \/ DU_RunUpdate

SpecStaged == InitStaged /\ [][NextStaged]_vars

\* The description updater: a live run in process mode, then --mode update
InitRerun ==
  /\ InitTwice
  /\ script = "desc"
  /\ ~cfg.dry

NextRerun ==
  \/ DU_Discover
  \/ DU_PopulateStart
  \/ DU_ResolveBatch
  \/ DU_PopulateRow
  \/ DU_PopulateDone
  \/ DU_UpdateRow
  \/ DU_UpdateDone
  \/ DU_VerifyRow
  \/ DU_VerifyDone
  \/ RestartUpdateLive
  \/ DU_RunUpdate

SpecRerun == InitRerun /\ [][NextRerun]_vars

\* One lookup of a SKU against a search answer of up to two variants
InitFind ==
  /\ script \in Finders
  /\ cfg = [ dry |-> FALSE, force |-> FALSE, force_env |-> FALSE, variant |-> FALSE,
             mode |-> "process" ]
  /\ skus \in { << <<"A">> >>, << <<"B">> >> }
  /\ rows \in UNION { [ 1..n -> Variants ] : n \in 0..2 }
  /\ tracker \in IF script = "title" THEN UNION { [ 1..n -> Variants ] : n \in 0..1 }
                 ELSE { << >> }
  /\ world = [ lw   |-> [ s \in Skus |-> "item" ],
               prod |-> [ s \in Skus |-> 0 ],
               bare |-> FALSE ]
  /\ shop = [ title |-> [ p \in Products |-> Empty ], body |-> [ p \in Products |-> Empty ],
              option1 |-> NoText, price |-> NoText, created |-> NoIds,
              images |-> NoImages, coll |-> TRUE, collects |-> {} ]
  /\ run = "first"
  /\ pc = "start"
  /\ i = 1
  /\ budget = 0
  /\ calls = << >>
  /\ sku_to_id = NoIds
  /\ updated_products = {}
  /\ buffer = << >>
  /\ csvlog = << >>
  /\ http = NoHttp

NextFind ==
  \/ FV_Title
  \/ FV_Trees
  \/ FV_Verify

SpecFind == InitFind /\ [][NextFind]_vars

\* A store with up to COLLECTION_PAGE + 1 collections of distinct titles, then
\* up to MaxEnsure calls of ensure_collection
InitCollections ==
  /\ script \in Ensurers
  /\ cfg \in [ dry : BOOLEAN, force : {FALSE}, force_env : {FALSE}, variant : {FALSE},
               mode : {"process"} ]
  /\ \E titles \in UNION { [ 1..n -> CollectionTitles ] : n \in 0..(COLLECTION_PAGE + 1) } :
       /\ \A a \in 1..Len(titles), b \in 1..Len(titles) :
            a # b => TitleKey(titles[a]) # TitleKey(titles[b])
       /\ rows = [ n \in 1..Len(titles) |-> [ id |-> n, title |-> titles[n] ] ]
  /\ world = [ lw   |-> [ s \in Skus |-> "item" ],
               prod |-> [ s \in Skus |-> 0 ],
               bare |-> FALSE ]
  /\ shop = [ title |-> [ p \in Products |-> Empty ], body |-> [ p \in Products |-> Empty ],
              option1 |-> NoText, price |-> NoText, created |-> NoIds,
              images |-> NoImages, coll |-> TRUE, collects |-> {} ]
  /\ run = "first"
  /\ pc = "start"
  /\ i = 1
  /\ budget = 0
  /\ calls = << >>
  /\ skus = << >>
  /\ sku_to_id = NoIds
  /\ updated_products = {}
  /\ buffer = << >>
  /\ tracker = << >>
  /\ csvlog = << >>
  /\ http = NoHttp

NextCollections ==
  \/ EC_Sync
  \/ EC_Trees

SpecCollections == InitCollections /\ [][NextCollections]_vars

\* A store in which product 1 may be linked already, then up to MaxAttach
\* calls of attach_to_collection
InitAttach ==
  /\ script \in Attachers
  /\ cfg \in [ dry : BOOLEAN, force : {FALSE}, force_env : {FALSE}, variant : {FALSE},
               mode : {"process"} ]
  /\ rows \in { << >>, << 1 >> }
  /\ world = [ lw   |-> [ s \in Skus |-> "item" ],
               prod |-> [ s \in Skus |-> 0 ],
               bare |-> FALSE ]
  /\ shop = [ title |-> [ p \in Products |-> Empty ], body |-> [ p \in Products |-> Empty ],
              option1 |-> NoText, price |-> NoText, created |-> NoIds,
              images |-> NoImages, coll |-> TRUE, collects |-> {} ]
  /\ run = "first"
  /\ pc = "start"
  /\ i = 1
  /\ budget = 0
  /\ calls = << >>
  /\ skus = << >>
  /\ sku_to_id = NoIds
  /\ updated_products = {}
  /\ buffer = << >>
  /\ tracker = << >>
  /\ csvlog = << >>
  /\ http = NoHttp

NextAttach ==
  \/ AT_Sync
  \/ AT_Trees

SpecAttach == InitAttach /\ [][NextAttach]_vars

\* A product with up to IMAGE_LIMIT images and a folder of up to two files;
\* the uploader runs twice
InitImages ==
  /\ script = "trees"
  /\ cfg \in [ dry : BOOLEAN, force : {FALSE}, force_env : {FALSE}, variant : {FALSE},
               mode : {"process"} ]
  /\ rows \in UNION { [ 1..n -> StoreImages ] : n \in 0..IMAGE_LIMIT }
  /\ tracker \in { << >>, << "i1.jpg" >>, << "i1.jpg", "i2.jpg" >> }
  /\ world = [ lw   |-> [ s \in Skus |-> "item" ],
               prod |-> [ s \in Skus |-> 0 ],
               bare |-> FALSE ]
  /\ shop = [ title |-> [ p \in Products |-> Empty ], body |-> [ p \in Products |-> Empty ],
              option1 |-> NoText, price |-> NoText, created |-> NoIds,
              images |-> NoImages, coll |-> TRUE, collects |-> {} ]
  /\ run = "first"
  /\ pc = "start"
  /\ i = 1
  /\ budget = 0
  /\ calls = << >>
  /\ skus = << >>
  /\ sku_to_id = NoIds
  /\ updated_products = {}
  /\ buffer = << >>
  /\ csvlog = << >>
  /\ http = NoHttp

NextImages ==
  \/ UI_Upload

SpecImages == InitImages /\ [][NextImages]_vars

\* A product with up to three images, one SKU, update_main_image run twice
InitMainImage ==
  /\ script = "update_main_image"
  /\ cfg \in [ dry : BOOLEAN, force : {FALSE}, force_env : {FALSE}, variant : {FALSE},
               mode : {"process"} ]
  /\ skus \in { << "" >>, << "m.jpg" >>, << "z.jpg" >> }
  /\ \E files \in UNION { [ 1..n -> MainFiles ] : n \in 0..3 } :
       rows = [ k \in 1..Len(files) |-> [ id |-> k, src |-> << files[k], "?v=1" >> ] ]
  /\ world \in { [ lw   |-> [ s \in Skus |-> "item" ],
                   prod |-> [ s \in Skus |-> 0 ],
                   bare |-> b ] : b \in BOOLEAN }
  /\ shop = [ title |-> [ p \in Products |-> Empty ], body |-> [ p \in Products |-> Empty ],
              option1 |-> NoText, price |-> NoText, created |-> NoIds,
              images |-> NoImages, coll |-> TRUE, collects |-> {} ]
  /\ run = "first"
  /\ pc = "start"
  /\ i = 1
  /\ budget = 0
  /\ calls = << >>
  /\ sku_to_id = NoIds
  /\ updated_products = {}
  /\ buffer = << >>
  /\ tracker = << >>
  /\ csvlog = << >>
  /\ http = NoHttp

NextMainImage ==
  \/ FM_Fix

SpecMainImage == InitMainImage /\ [][NextMainImage]_vars

\* A store of up to MaxPages pages with up to two products each, scanned once
InitPages ==
  /\ script = "desc"
  /\ cfg = [ dry |-> FALSE, force |-> FALSE, force_env |-> FALSE, variant |-> FALSE,
             mode |-> "process" ]
  /\ \E n \in 1..MaxPages :
       \E bodies \in [ 1..n -> UNION { [ 1..m -> PageBodies ] : m \in 0..2 } ] :
         rows = [ k \in 1..n |->
                    [ j \in 1..Len(bodies[k]) |-> [ id |-> 10 * k + j, body |-> bodies[k][j] ] ] ]
  /\ budget = MaxRateLimit
  /\ world = [ lw   |-> [ s \in Skus |-> "item" ],
               prod |-> [ s \in Skus |-> 0 ],
               bare |-> FALSE ]
  /\ shop = [ title |-> [ p \in Products |-> Empty ], body |-> [ p \in Products |-> Empty ],
              option1 |-> NoText, price |-> NoText, created |-> NoIds,
              images |-> NoImages, coll |-> TRUE, collects |-> {} ]
  /\ run = "first"
  /\ pc = "scan"
  /\ i = 1
  /\ calls = << >>
  /\ skus = << >>
  /\ sku_to_id = NoIds
  /\ updated_products = {}
  /\ buffer = << >>
  /\ tracker = << >>
  /\ csvlog = << >>
  /\ http = [ NoHttp EXCEPT !.fn = "sh_paginate_products_empty_desc", !.phase = "open" ]

NextPages ==
  \/ PG_Request

SpecPages == InitPages /\ [][NextPages]_vars

\* A file of up to MaxRows rows, some without a description, some with
\* specifications from earlier work, and up to MaxRuns runs of the job
InitLLM ==
  /\ script = "repeat_task"
  /\ cfg = [ dry |-> FALSE, force |-> FALSE, force_env |-> FALSE, variant |-> FALSE,
             mode |-> "process" ]
  /\ rows \in UNION { [ 1..n -> [ desc : { "", "text" }, out : { "", "Specifications" } ] ] :
                        n \in 1..MaxRows }
  /\ tracker = rows
  /\ world = [ lw   |-> [ s \in Skus |-> "item" ],
               prod |-> [ s \in Skus |-> 0 ],
               bare |-> FALSE ]
  /\ shop = [ title |-> [ p \in Products |-> Empty ], body |-> [ p \in Products |-> Empty ],
              option1 |-> NoText, price |-> NoText, created |-> NoIds,
              images |-> NoImages, coll |-> TRUE, collects |-> {} ]
  /\ run = 1
  /\ pc = "rows"
  /\ i = 1
  /\ budget = 0
  /\ calls = << >>
  /\ skus = << >>
  /\ sku_to_id = NoIds
  /\ updated_products = {}
  /\ buffer = << >>
  /\ csvlog = << >>
  /\ http = NoHttp

NextLLM ==
  \/ LL_Row
  \/ LL_Done
  \/ LL_Rerun

SpecLLM == InitLLM /\ [][NextLLM]_vars

\* The collection sync, run twice; the second run may get another CSV
SyncWorldOk(w) ==
  \A s \in Skus :
    w.prod[s] # 0 =>
      \A p \in 1..(w.prod[s] - 1) :
        \E t \in Skus : KeyIndex(t) < KeyIndex(s) /\ w.prod[t] = p

InitSync ==
  /\ script = "sync"
  /\ cfg \in [ dry : BOOLEAN, force : {FALSE}, force_env : {FALSE}, variant : {FALSE},
             mode : {"process"} ]
  /\ skus = << >>
  /\ world \in [ lw : {[ s \in Skus |-> "unknown" ]}, prod : [Skus -> 0..MaxKeys],
                 bare : {FALSE} ]
  /\ SyncWorldOk(world)
  /\ shop \in [ title : {[ p \in Products |-> Empty ]}, body : {[ p \in Products |-> Empty ]},
                option1 : {NoText}, price : {NoText}, created : {NoIds},
                images : {NoImages}, coll : BOOLEAN, collects : {{}} ]
  /\ InitCommon
  /\ budget = MaxFaults

NextSync ==
  \/ SC_Start
  \/ SC_Key
  \/ SC_WriteReport
  \/ Restart

SpecSync == InitSync /\ [][NextSync]_vars

\* One helper call for the first key, live, against a shop whose product 1 has
\* the SKU and no title yet; the remote system answers each request as it likes
InitHttp ==
  /\ script = "title"
  /\ cfg = [ dry |-> FALSE, force |-> FALSE, force_env |-> FALSE, variant |-> FALSE,
             mode |-> "process" ]
  /\ skus = << HttpSku >>
  /\ world = [ lw   |-> [ s \in Skus |-> IF s = HttpSku THEN "item" ELSE "unknown" ],
               prod |-> [ s \in Skus |-> IF s = HttpSku THEN 1 ELSE 0 ],
               bare |-> FALSE ]
  /\ shop = [ title |-> [ p \in Products |-> Empty ], body |-> [ p \in Products |-> Empty ],
              option1 |-> NoText, price |-> NoText, created |-> NoIds,
              images |-> NoImages, coll |-> TRUE, collects |-> {} ]
  /\ run = "first"
  /\ pc = "http"
  /\ i = 1
  /\ budget = 0
  /\ calls = << >>
  /\ sku_to_id = NoIds
  /\ updated_products = {}
  /\ buffer = << >>
  /\ tracker = << >>
  /\ csvlog = << >>
  /\ rows = << >>
  /\ http \in { [ NoHttp EXCEPT !.fn = f, !.phase = "open" ] : f \in Helpers }

NextHttp ==
  \/ SH_UpdateProductTitle
  \/ SH_GetProduct
  \/ LW_Get
  \/ Req

SpecHttp == InitHttp /\ [][NextHttp]_vars

\* One of the key-resolution scripts on a CSV column of up to MaxCells cells;
\* the remote system answers each request as it likes
InitResolve ==
  /\ script \in Resolvers
  /\ cfg = [ dry |-> FALSE, force |-> FALSE, force_env |-> FALSE, variant |-> FALSE,
             mode |-> "process" ]
  /\ rows \in UNION { [ 1..n -> CsvCells ] : n \in 0..MaxCells }
  /\ world = [ lw   |-> [ s \in Skus |-> "item" ],
               prod |-> [ s \in Skus |-> 0 ],
               bare |-> FALSE ]
  /\ shop = [ title |-> [ p \in Products |-> Empty ], body |-> [ p \in Products |-> Empty ],
              option1 |-> NoText, price |-> NoText, created |-> NoIds,
              images |-> NoImages, coll |-> TRUE, collects |-> {} ]
  /\ run = "first"
  /\ pc = "start"
  /\ i = 1
  /\ budget = 0
  /\ calls = << >>
  /\ skus = << >>
  /\ sku_to_id = NoIds
  /\ updated_products = {}
  /\ buffer = << >>
  /\ tracker = << >>
  /\ csvlog = << >>
  /\ http = NoHttp

NextResolve ==
  \/ RS_Main
  \/ RS_Wrapper
  \/ RS_Fetch
  \/ RS_Spec

SpecResolve == InitResolve /\ [][NextResolve]_vars

\* One answer of GetStockItemIdsBySKU, in any shape, handed to one of the
\* helpers that normalise it
InitShapes ==
  /\ script \in Normalizers
  /\ cfg = [ dry |-> FALSE, force |-> FALSE, force_env |-> FALSE, variant |-> FALSE,
             mode |-> "process" ]
  /\ world \in { [ content |-> c, shape |-> s, envelope |-> e ] :
                   c \in Contents, s \in Shapes, e \in Envelopes }
  /\ Carries(world.content, world.shape)
  /\ shop = [ title |-> [ p \in Products |-> Empty ], body |-> [ p \in Products |-> Empty ],
              option1 |-> NoText, price |-> NoText, created |-> NoIds,
              images |-> NoImages, coll |-> TRUE, collects |-> {} ]
  /\ run = "first"
  /\ pc = "start"
  /\ i = 1
  /\ budget = 0
  /\ calls = << >>
  /\ skus = << >>
  /\ sku_to_id = DictOf(<< >>)
  /\ updated_products = {}
  /\ buffer = << >>
  /\ tracker = << >>
  /\ csvlog = << >>
  /\ rows = << >>
  /\ http = NoHttp

NextShapes ==
  \/ NR_CheckSkusExist
  \/ NR_FetchBySku
  \/ NR_Title

SpecShapes == InitShapes /\ [][NextShapes]_vars

\* One export script after its resolution step: two keys, each with the ids
\* the resolution gave it (linnworks_specification keeps one id per key), any
\* set of ids having a row for the channel pair
InitExport ==
  /\ script \in Exporters
  /\ cfg = [ dry |-> FALSE, force |-> FALSE, force_env |-> FALSE, variant |-> FALSE,
             mode |-> "process" ]
  /\ world \in { [ onchannel |-> s ] : s \in SUBSET ExportIds }
  /\ shop = [ title |-> [ p \in Products |-> Empty ], body |-> [ p \in Products |-> Empty ],
              option1 |-> NoText, price |-> NoText, created |-> NoIds,
              images |-> NoImages, coll |-> TRUE, collects |-> {} ]
  /\ run = "first"
  /\ pc = CASE script = "download_ebay_prices"            -> "prices"
            [] script = "download_ebay_prices_with_title" -> "titles"
            [] script = "linnworks_fetch_by_sku"          -> "details"
            [] script = "linnworks_specification"         -> "descriptions"
  /\ i = 1
  /\ budget = 0
  /\ calls = << >>
  /\ skus = ExportKeys
  /\ sku_to_id \in ExportMappings
  /\ script = "linnworks_specification" => \A k \in {"A", "B"} : Len(sku_to_id[k]) <= 1
  /\ updated_products = {}
  /\ buffer = << >>
  /\ tracker = << >>
  /\ csvlog = << >>
  /\ rows = << >>
  /\ http = NoHttp

NextExport ==
  \/ EX_Titles
  \/ EX_Price
  \/ EX_Details
  \/ EX_Description
  \/ EX_Write

SpecExport == InitExport /\ [][NextExport]_vars

\* One reader on a key column of up to MaxCells + 1 cells
InitRead ==
  /\ script \in Readers
  /\ cfg = [ dry |-> FALSE, force |-> FALSE, force_env |-> FALSE, variant |-> FALSE,
             mode |-> "process" ]
  /\ rows \in UNION { [ 1..n -> CsvCells ] : n \in 0..(MaxCells + 1) }
  /\ world = [ lw   |-> [ s \in Skus |-> "item" ],
               prod |-> [ s \in Skus |-> 0 ],
               bare |-> FALSE ]
  /\ shop = [ title |-> [ p \in Products |-> Empty ], body |-> [ p \in Products |-> Empty ],
              option1 |-> NoText, price |-> NoText, created |-> NoIds,
              images |-> NoImages, coll |-> TRUE, collects |-> {} ]
  /\ run = "first"
  /\ pc = "start"
  /\ i = 1
  /\ budget = 0
  /\ calls = << >>
  /\ skus = << >>
  /\ sku_to_id = NoIds
  /\ updated_products = {}
  /\ buffer = << >>
  /\ tracker = << >>
  /\ csvlog = << >>
  /\ http = NoHttp

NextRead ==
  \/ RD_Excel
  \/ RD_LoadSkus
  \/ RD_LoadRows

SpecRead == InitRead /\ [][NextRead]_vars


\* ================================================================ properties
IsWrite(c) == c.op \in MutatingOps

LastCall == calls[Len(calls)]

\* Rows the title job has produced so far, flushed or still buffered
AllRows == tracker \o buffer

\* The rows a key has in a row list
RowsOf(rs, sku) == { n \in 1..Len(rs) : rs[n].SKU = sku }

TitleTerminal == {"NOT_FOUND", "MISSING_TITLE", "SKIPPED", "SKIPPED_DUPLICATE_PRODUCT",
                  "ERROR", "READY", "UPDATED", "VERIFY_FAIL"}

DescTerminal == {"NOT_FOUND", "MISSING_DESC", "SKIPPED", "ERROR", "POPULATE_READY",
                 "VERIFIED", "VERIFY_FAIL"}

\* C1: under dry-run no job issues a request that creates or changes a Shopify
\* product, variant, image, collection or collect; whatever the input, the
\* remote data and the failures, only reads are on the wire.
DryRunIssuesNoWrite ==
  cfg.dry => \A n \in 1..Len(calls) : ~IsWrite(calls[n])

\* C1 witness: a dry run of the title job that ended with a key it would have
\* written, reported READY
DryRunReachedReady ==
  /\ cfg.dry /\ script = "title" /\ pc = "done"
  /\ \E n \in 1..Len(tracker) : tracker[n].Status = "READY"
  /\ \E n \in 1..Len(calls) : calls[n].op = "SH_GET_PRODUCT"

\* C2: in a live run of the title job or the description updater no two write
\* calls go to the same field of the same remote object.
OneWritePerIdAndField ==
  (~cfg.dry /\ script \in {"title", "desc"}) =>
    \A m \in 1..Len(calls), n \in 1..Len(calls) :
      (m < n /\ IsWrite(calls[m]) /\ IsWrite(calls[n]) /\ calls[m].run = calls[n].run)
        => ~(calls[m].target = calls[n].target /\ calls[m].field = calls[n].field)

\* C3: when a job is run a second time on the same input against the store the
\* first run left, the second run issues no write and reports every key it
\* finds as skipped.
SecondRunWritesNothing ==
  /\ \A n \in 1..Len(calls) : calls[n].run = "second" => ~IsWrite(calls[n])
  /\ \A n \in 1..Len(tracker) :
       (script = "title" /\ tracker[n].Run = "second" /\ tracker[n].ProductID # 0
        /\ tracker[n].NewTitle # Empty)
         => tracker[n].Status = "SKIPPED"

\* C4: when a run completes, every key of the input has a final status and it
\* is a terminal one: the title job has exactly one tracker row per SKU of the
\* workbook, the description updater has a row for every SKU of a product left
\* without description, its status is terminal and it is the status of the
\* key's last tracker row; no key is left PENDING.
EveryKeyEndsTerminal ==
  pc = "done" =>
    /\ script = "title" =>
         \A k \in 1..Len(skus) :
           /\ Cardinality(RowsOf(tracker, skus[k])) = 1
           /\ \A n \in RowsOf(tracker, skus[k]) : tracker[n].Status \in TitleTerminal
    /\ script = "desc" =>
         /\ \A s \in Skus :
              (world.prod[s] # 0 /\ Strip(shop.body[world.prod[s]]) = Empty)
                => RowsOf(rows, s) # {}
         /\ \A n \in 1..Len(rows) :
              rows[n].SKU # "" =>
                /\ rows[n].Status \in DescTerminal
                /\ LET last == CHOOSE m \in RowsOf(tracker, rows[n].SKU) :
                                 \A q \in RowsOf(tracker, rows[n].SKU) : q <= m
                   IN tracker[last].Status = rows[n].Status

\* C4 witness: a completed title run over two keys, one written and one that
\* Linnworks does not know
TwoKeysTwoStatuses ==
  /\ script = "title" /\ pc = "done" /\ Len(skus) = 2
  /\ \E m \in 1..Len(tracker), n \in 1..Len(tracker) :
       tracker[m].Status = "UPDATED" /\ tracker[n].Status = "NOT_FOUND"

\* C5: a key for which the resolution gave no id is reported NOT_FOUND once it
\* has been processed, and no call other than the resolution itself is ever
\* made for it: no Linnworks fetch, no Shopify lookup, read or write.
UnresolvedKeyIsNotFound ==
  /\ (script = "title" /\ pc \in {"loop", "done"}) =>
       \A k \in 1..Len(skus) :
         sku_to_id[skus[k]] = 0 =>
           /\ k < i => \A n \in RowsOf(AllRows, skus[k]) : AllRows[n].Status = "NOT_FOUND"
           /\ k < i => RowsOf(AllRows, skus[k]) # {}
           /\ \A n \in 1..Len(calls) :
                calls[n].key = skus[k] => calls[n].op = "LW_RESOLVE"
  /\ (script = "desc" /\ pc \in {"populate_rows", "update", "verify", "done"}) =>
       \A k \in 1..Len(rows) :
         (rows[k].SKU # "" /\ sku_to_id[rows[k].SKU] = 0) =>
           /\ (pc # "populate_rows" \/ k < i) => rows[k].Status = "NOT_FOUND"
           /\ \A n \in 1..Len(calls) :
                calls[n].key = rows[k].SKU => calls[n].op = "LW_RESOLVE"

\* C5 witness: a completed title run in which one key was unknown to Linnworks
\* and another went on to Shopify
NotFoundBesideProcessed ==
  /\ script = "title" /\ pc = "done"
  /\ \E n \in 1..Len(tracker) :
       tracker[n].Status = "NOT_FOUND" /\ sku_to_id[tracker[n].SKU] = 0
  /\ \E n \in 1..Len(calls) : calls[n].op = "SH_FIND"

\* C6: a failing call made while one key is processed never ends the run: a
\* run only stops early on a call that belongs to no key (authentication, the
\* product scan, the collection lookup) or on the id resolution.
KeyFailureNeverAborts ==
  pc = "fatal" => (LastCall.key = "" \/ LastCall.op = "LW_RESOLVE")

\* C7: a failed id resolution of a batch never ends the run, and when the run
\* is over every key without an id is reported NOT_FOUND.
FailedBatchIsNotFound ==
  /\ pc = "fatal" => LastCall.op # "LW_RESOLVE"
  /\ (pc = "done" /\ script = "title") =>
       \A k \in 1..Len(skus) :
         sku_to_id[skus[k]] = 0 =>
           \A n \in RowsOf(tracker, skus[k]) : tracker[n].Status = "NOT_FOUND"

\* C8: a written key ends in the success status exactly when the field read
\* back equals the candidate: in the title job the row just produced is UPDATED
\* only with the field equal to the new title and VERIFY_FAIL only with it
\* different; in the description updater, whose verify stage is the last to
\* read the store, a row is VERIFIED only with body_html equal to the HTML that
\* was sent and VERIFY_FAIL only with it different.
SuccessIffReadBackEqual ==
  /\ (script = "title" /\ pc = "loop" /\ i > 1) =>
       LET r   == AllRows[Len(AllRows)]
           cur == IF cfg.variant THEN shop.option1[r.SKU] ELSE shop.title[r.ProductID]
       IN /\ r.Status = "UPDATED" => cur = r.NewTitle
          /\ r.Status = "VERIFY_FAIL" => cur # r.NewTitle
  /\ (script = "desc" /\ pc = "done") =>
       \A n \in 1..Len(rows) :
         /\ rows[n].Status = "VERIFIED" => shop.body[rows[n].ProductID] = rows[n].NewHTML
         /\ rows[n].Status = "VERIFY_FAIL" => shop.body[rows[n].ProductID] # rows[n].NewHTML

\* C9: in both write modes of the title job, when force is off and the target
\* field (the product title, or option1 of the variant) is non-empty and equal
\* to the candidate, the step that processes the key reports SKIPPED and adds
\* no write call.
MatchingValueIsSkipped ==
  [][ (script = "title" /\ pc = "loop" /\ i' = i + 1 /\ ~cfg.force /\ ~cfg.force_env) =>
        LET all == tracker' \o buffer'
            r   == all[Len(all)]
            cur == IF cfg.variant THEN Strip(shop.option1[r.SKU])
                                  ELSE Strip(shop.title[r.ProductID])
        IN (r.ProductID # 0 /\ r.NewTitle # Empty /\ cur = r.NewTitle) =>
             /\ r.Status = "SKIPPED"
             /\ \A n \in (Len(calls) + 1)..Len(calls') : ~IsWrite(calls'[n])
    ]_vars

\* C10: without --force every body_html write of the description updater comes
\* right after a read of the same product that showed an empty or whitespace
\* body_html; when that read shows a description the row becomes SKIPPED and
\* no write is made.
FillsOnlyEmptyDescriptions ==
  [][ (script = "desc" /\ pc = "update" /\ ~cfg.force /\ i' = i + 1) =>
        LET r   == rows[i]
            cur == Strip(shop.body[r.ProductID])
        IN
        /\ \A n \in (Len(calls) + 1)..Len(calls') :
             IsWrite(calls'[n]) =>
               /\ cur = Empty
               /\ n > 1
               /\ calls'[n - 1].op = "SH_GET_PRODUCT"
               /\ calls'[n - 1].target = calls'[n].target
               /\ n - 1 > Len(calls)
        /\ (cur # Empty /\ r.Status = "POPULATED" /\ budget' = budget) =>
             /\ rows'[i].Status = "SKIPPED"
             /\ \A n \in (Len(calls) + 1)..Len(calls') : ~IsWrite(calls'[n])
    ]_vars

\* C10 witness: without --force a second SKU of a product found the description
\* its sibling had just written and was SKIPPED
SkippedAfterSiblingWrite ==
  /\ script = "desc" /\ ~cfg.force /\ pc = "verify"
  /\ \E m \in 1..Len(rows), n \in 1..Len(rows) :
       /\ rows[m].ProductID = rows[n].ProductID
       /\ rows[m].Status = "UPDATED"
       /\ rows[n].Status = "SKIPPED" /\ rows[n].SKU # ""

\* Write calls made for a key
WritesOf(sku) == { n \in 1..Len(calls) : calls[n].key = sku /\ IsWrite(calls[n]) }

\* C11: a key whose candidate value is empty or absent ends in the
\* no-source-data status and no write of that field is made for it: a title
\* row MISSING_TITLE and a description row MISSING_DESC have no write call, a
\* resolved description row whose channel description is blank is MISSING_DESC,
\* and the uploader sends body_html only for a CSV row that has a description.
EmptyCandidateNeverWritten ==
  /\ script = "title" =>
       \A n \in 1..Len(AllRows) :
         AllRows[n].Status = "MISSING_TITLE" => WritesOf(AllRows[n].SKU) = {}
  /\ (script = "desc" /\ pc \in {"update", "verify", "done"}) =>
       \A n \in 1..Len(rows) :
         /\ rows[n].Status = "MISSING_DESC" => WritesOf(rows[n].SKU) = {}
         /\ (rows[n].SKU # "" /\ sku_to_id[rows[n].SKU] # 0
             /\ rows[n].Status # "ERROR"
             /\ Strip(lw_pick_channel_desc(LwDescRows(rows[n].SKU), CHANNEL_SOURCE,
                                           CHANNEL_SUBSOURCE)) = Empty)
              => rows[n].Status = "MISSING_DESC"
  /\ script = "trees" =>
       \A n \in 1..Len(calls) :
         (calls[n].op = "SH_PUT_PRODUCT"
          /\ calls[n].field \in {"body_html", "title+body_html"})
           => \A m \in RowsOf(rows, calls[n].key) : rows[m].Description # Empty

RowsOfRun(r) == SelectSeq(tracker, LAMBDA x : x.Run = r)

WouldUpdate == {"READY", "POPULATE_READY"}
DidUpdate   == {"POPULATED", "UPDATED", "VERIFIED"}
SameInBoth  == {"NOT_FOUND", "SKIPPED", "MISSING_TITLE", "MISSING_DESC", "PENDING"}

\* C12: a dry run and the live run on the same input and remote state persist
\* the same number of tracker rows, row by row for the same key; a row is
\* READY / POPULATE_READY in the dry run exactly when the live run's row is
\* that of a write (POPULATED, UPDATED, VERIFIED), and a row that is
\* NOT_FOUND, SKIPPED or missing source data in the dry run has the same
\* status in the live run.
DryRunPredictsLiveRun ==
  (pc = "done" /\ run = "second" /\ script \in {"title", "desc"}) =>
    LET d == RowsOfRun("first")
        l == RowsOfRun("second")
    IN /\ Len(d) = Len(l)
       /\ \A n \in 1..Len(d) :
            /\ d[n].SKU = l[n].SKU
            /\ d[n].Status \in WouldUpdate <=> l[n].Status \in DidUpdate
            /\ d[n].Status \in SameInBoth => l[n].Status = d[n].Status

\* Helpers that send a write, and what a key that was written reports
WriteHelpers == {"sh_update_product_title", "req"}
Written      == {"UPDATED", "[UPDATE]"}

\* The answers so far are k times 429
Only429(k) == Len(http.answers) = k /\ \A n \in 1..k : http.answers[n] = 429

\* The answers are k times 429 and then 200
Then200(k) ==
  /\ Len(http.answers) = k + 1
  /\ \A n \in 1..k : http.answers[n] = 429
  /\ http.answers[k + 1] = 200

\* k sleeps and n requests, all of them the same request
SleepsAndRequests(k, n) ==
  /\ Len(http.sleeps) = k
  /\ Len(http.sent) = n
  /\ \A m \in 1..n : http.sent[m] = http.sent[1]

\* C13 as stated, for every k: a write call that has been answered 429 k times
\* has slept k times and goes on to send the same request again, and when the
\* next answer is 200 it has made k sleeps and k + 1 identical requests and
\* the key is reported written.
RateLimitedWriteAlwaysRetried ==
  http.fn \in WriteHelpers =>
    \A k \in 0..MaxAttempts :
      /\ Only429(k) => http.phase = "open" /\ SleepsAndRequests(k, k)
      /\ Then200(k) => /\ http.phase = "returned"
                       /\ SleepsAndRequests(k, k + 1)
                       /\ http.outcome \in Written

\* C13 with the attempt ceiling: the same for every k the helper allows, which
\* is k < RETRY_MAX_ATTEMPTS in the uploader's req and any k in the PUT helpers
\* of the title job and the description updater; req answered 429
\* RETRY_MAX_ATTEMPTS times raises after that many requests and one sleep less.
RateLimitedWriteRetriedBelowCeiling ==
  http.fn \in WriteHelpers =>
    \A k \in 0..MaxAttempts :
      /\ (Only429(k) /\ (http.fn = "req" => k < RETRY_MAX_ATTEMPTS))
           => http.phase = "open" /\ SleepsAndRequests(k, k)
      /\ (Only429(k) /\ http.fn = "req" /\ k = RETRY_MAX_ATTEMPTS)
           => http.phase = "raised" /\ SleepsAndRequests(k - 1, k)
      /\ Then200(k) => /\ http.phase = "returned"
                       /\ SleepsAndRequests(k, k + 1)
                       /\ http.outcome \in Written
                       /\ http.fn = "req" => k < RETRY_MAX_ATTEMPTS

\* C13 witness: the title PUT answered 429, 429, 200: two sleeps, three
\* requests, the key UPDATED
TwoSleepsThenUpdated ==
  /\ http.fn = "sh_update_product_title"
  /\ http.answers = << 429, 429, 200 >>
  /\ Len(http.sleeps) = 2 /\ Len(http.sent) = 3
  /\ http.outcome = "UPDATED"

\* 429, 5xx or a timeout
Retryable(a) == a \in RETRY_STATUS \cup {Timeout}

\* C14: every helper call ends after at most RETRY_MAX_ATTEMPTS requests; a
\* call goes on after an answer only when the answer was a retryable failure,
\* and it has slept once for every such answer; a call gives up on a
\* retryable failure only at the attempt bound, and the key is then reported
\* ERROR.
EveryCallRetriesUpToBound ==
  http.attempt > 0 =>
    LET last == http.answers[Len(http.answers)] IN
    /\ Len(http.sent) <= RETRY_MAX_ATTEMPTS
    /\ http.phase = "open" => Retryable(last) /\ Len(http.sleeps) = Len(http.sent)
    /\ (http.phase = "raised" /\ Retryable(last)) =>
         /\ Len(http.sent) = RETRY_MAX_ATTEMPTS
         /\ http.outcome = "ERROR"

IsPrefix(s, t) == Len(s) <= Len(t) /\ \A n \in 1..Len(s) : t[n] = s[n]

\* C15: every step of a job leaves the rows already persisted in its log files
\* (tracker workbook, CSV change log, sync report) where they are, unchanged
\* and in order, and can only add rows after them; this also holds from one
\* run to the next.
LogIsAppendOnly ==
  [][ IsPrefix(tracker, tracker') /\ IsPrefix(csvlog, csvlog') ]_vars

\* C16: between two keys fewer than FLUSH_EVERY processed keys have a row that
\* is not yet in the log file, and when the run is complete the file holds
\* exactly one row per processed key, in input order.
FlushedEveryNKeys ==
  /\ (script \in {"title", "sync"} /\ pc = "loop") => Len(buffer) < FLUSH_EVERY
  /\ (script = "title" /\ pc = "done" /\ run = "first") =>
       /\ Len(tracker) = Len(skus)
       /\ \A n \in 1..Len(skus) : tracker[n].SKU = skus[n]
  /\ (script = "sync" /\ pc = "done" /\ run = "first") =>
       /\ Len(tracker) = Len(rows)
       /\ \A n \in 1..Len(rows) : tracker[n].linnworks_sku = rows[n].sku

\* C17: a run decides the same whatever log earlier runs have left, so the
\* same as with no log at all; started in update mode with an empty tracker the
\* description updater finds no candidate, issues no write and records no row:
\* in update mode it never issues a write and never records a row.
LogNotConsulted ==
  (script = "desc" /\ cfg.mode = "update") =>
    /\ \A n \in 1..Len(calls) : calls[n].run = "second" => ~IsWrite(calls[n])
    /\ \A n \in 1..Len(tracker) : tracker[n].Run # "second"

\* Statuses no later stage touches
DescFinal == {"NOT_FOUND", "MISSING_DESC", "SKIPPED", "ERROR", "VERIFIED", "VERIFY_FAIL"}

\* C18: in a run of the description updater a row's status only moves along
\* the pipeline: it becomes VERIFIED or VERIFY_FAIL only from UPDATED, UPDATED
\* only from POPULATED, POPULATED only with an id resolved for its SKU; a row that is NOT_FOUND, MISSING_DESC, SKIPPED, ERROR, VERIFIED
\* or VERIFY_FAIL keeps that status in every later step of the run.
StatusFollowsPipeline ==
  [][ (script = "desc" /\ run' = run /\ rows # << >> /\ Len(rows') = Len(rows)) =>
        \A n \in 1..Len(rows) :
          LET old == rows[n].Status
              new == rows'[n].Status
          IN
          /\ rows'[n].SKU = rows[n].SKU
          /\ (new \in {"VERIFIED", "VERIFY_FAIL"} /\ new # old) => old = "UPDATED"
          /\ (new = "UPDATED" /\ new # old) => old = "POPULATED"
          /\ (new = "POPULATED" /\ new # old) => sku_to_id[rows[n].SKU] # 0
          /\ old \in DescFinal => new = old
    ]_vars

\* C18 witness: a completed run whose tracker shows one key going through
\* PENDING, POPULATED, UPDATED and VERIFIED while another row ended NOT_FOUND
WholePipelineWalked ==
  /\ script = "desc" /\ pc = "done" /\ cfg.mode = "process"
  /\ \E s \in Skus :
       LET mine == SelectSeq(tracker, LAMBDA r : r.SKU = s) IN
       /\ Len(mine) = 4
       /\ << mine[1].Status, mine[2].Status, mine[3].Status, mine[4].Status >>
            = << "PENDING", "POPULATED", "UPDATED", "VERIFIED" >>
  /\ \E n \in 1..Len(rows) : rows[n].Status = "NOT_FOUND"

\* ------------------------------------------------------------------ C19
AlternateName(n) == IF n = "skus" THEN "SKUS" ELSE "skus"
ClientError(a)   == a \in 400..499
CallEnded        == pc = "done" /\ http.fn \in Resolvers

\* C19: key resolution sends the primary payload field name first; a second
\* request is sent exactly when the first one got a 4xx answer, it carries the
\* alternate field name, there is never a third request, and a call whose last
\* request failed is reported as failed.
RetriesOnceWithAlternateName ==
  /\ http.fn \in Resolvers => Len(http.sent) <= 2
  /\ CallEnded =>
       /\ (Len(http.sent) = 2) <=> ClientError(http.answers[1])
       /\ Len(http.sent) = 2 => http.sent[2].name = AlternateName(http.sent[1].name)
       /\ http.answers[Len(http.answers)] # 200 => http.outcome = "raised"

\* ------------------------------------------------------------------ C20
BlankKey(k) == Strip(k) = Empty

\* C20: no key-resolution request carries an empty or whitespace-only key, in
\* any of the scripts that resolve keys.
NoBlankKeySent ==
  http.fn \in Resolvers =>
    \A n \in 1..Len(http.sent) :
      \A j \in 1..Len(http.sent[n].keys) : ~BlankKey(http.sent[n].keys[j])

\* ------------------------------------------------------------------ C21
\* the mapping the content stands for: key -> list of ids
Expected(content) ==
  DictOf([ n \in 1..Len(content) |-> << content[n].SKU, IdList(content[n].ids) >> ])

\* a mapping to one id per key, read as a mapping to lists of one id
AsIdLists(m) == [ k \in DOMAIN m |-> IF m[k].t = "list" THEN m[k] ELSE JList(<< m[k] >>) ]

SameMapping(m1, m2) ==
  /\ DOMAIN m1 = DOMAIN m2
  /\ \A k \in DOMAIN m1 : m1[k].t = m2[k].t /\ m1[k].v = m2[k].v

Recognised(shape) == shape \notin {"text", "number", "null"}

\* C21: key resolution returns the mapping the answer's content stands for
\* whichever shape carries it (object of arrays, array of objects, a single
\* object, any of them in an envelope field), and an empty mapping for an
\* unrecognised shape.
SameMappingWhateverShape ==
  (script \in Normalizers /\ pc # "start") =>
    /\ pc = "done"
    /\ SameMapping(AsIdLists(sku_to_id),
                   IF Recognised(world.shape) THEN Expected(world.content)
                   ELSE DictOf(<< >>))

\* ------------------------------------------------------------------ C22
FirstIds == { sku_to_id[k][1] : k \in { k \in DOMAIN sku_to_id : sku_to_id[k] # << >> } }

IdsAsked(c) == { c.target[n] : n \in 1..Len(c.target) }

\* C22: when a key resolves to several ids only the first one is used
\* downstream: every fetch is for first ids, none for the other ids of a key.
OnlyFirstIdFetched ==
  script \in Exporters =>
    \A n \in 1..Len(calls) : IdsAsked(calls[n]) \subseteq FirstIds

\* ------------------------------------------------------------------ C23
\* a row of the configured (source, sub-source) pair, letter for letter
ExactPair(row) == row.Source = CHANNEL_SOURCE /\ row.SubSource = CHANNEL_SUBSOURCE

HasExactPair(rs) == \E n \in 1..Len(rs) : ExactPair(rs[n])

\* C23: channel selection is an exact match on the (source, sub-source) pair:
\* a description or a channel title is taken for a key only from a row whose
\* Source and SubSource both equal the configured pair exactly.
ChannelMatchIsExact ==
  /\ script = "desc" =>
       \A n \in 1..Len(rows) :
         (rows[n].SKU # "" /\ rows[n].NewHTML # Empty) => HasExactPair(LwDescRows(rows[n].SKU))
  /\ script = "title" =>
       \A n \in 1..Len(tracker \o buffer) :
         LET row == (tracker \o buffer)[n] IN
         (row.NewTitle # Empty /\ Strip(LwCoreTitle(row.SKU)) = Empty)
           => HasExactPair(LwTitleRows(row.SKU))

\* ------------------------------------------------------------------ C24
Unresolved(sku) == sku_to_id[sku] = << >>

\* the helper call made for the key raised: its last request timed out or got
\* an error answer
FetchFailed(sku) ==
  LET mine == SelectSeq(calls, LAMBDA c : c.key = sku) IN
  /\ mine # << >>
  /\ \/ mine[Len(mine)].value \in {"timeout", "error"}
     \/ mine[Len(mine)].op = "LW_DESC" /\ mine[Len(mine)].value = "fail"

\* the key resolved, its fetch answered, and no row is of the channel pair
Absent(sku) ==
  /\ ~Unresolved(sku) /\ ~FetchFailed(sku)
  /\ sku_to_id[sku][1] \notin world.onchannel

\* what the output says about a key: its row without the key
Recorded(row) == [ row EXCEPT !.SKU = "" ]

\* C24: the outcome recorded for a key whose record has no row of the channel
\* pair differs from the outcome recorded for a key whose fetch failed and
\* from the outcome of a key that did not resolve.
AbsentIsDistinguishable ==
  script \in Exporters \ {"linnworks_fetch_by_sku"} =>
    \A n \in 1..Len(rows), m \in 1..Len(rows) :
      (Absent(rows[n].SKU) /\ (Unresolved(rows[m].SKU) \/ FetchFailed(rows[m].SKU)))
        => Recorded(rows[n]) # Recorded(rows[m])

\* ------------------------------------------------------------------ C25
FormsTried == { http.sent[k] : k \in 1..Len(http.sent) }

\* C25: a remote fetch tries the primary request form and at most two fallback
\* forms; a fallback answer is accepted as success only if it holds at least
\* one record.
AtMostTwoValidatedFallbacks ==
  http.fn \in {"get_inventory_item_prices", "get_titles_by_ids"} =>
    /\ Cardinality(FormsTried) <= 3
    /\ (http.outcome = "returned" /\ Len(http.sent) >= 2)
         => http.answers[Len(http.answers)] = "rows"

\* ------------------------------------------------------------------ C26
AuthFailures == { 401, 403 }

\* C26: an authentication failure (401/403) answered by either remote system
\* is fatal: the request that got it is the last one of the call (no fallback
\* request follows) and the call ends the run instead of giving the key an
\* ERROR row.
AuthFailureIsFatal ==
  \A n \in 1..Len(http.answers) :
    http.answers[n] \in AuthFailures =>
      /\ n = Len(http.sent)
      /\ http.outcome \in {"raised", "RuntimeError"}

\* ------------------------------------------------------------------ C27
\* a row the update step passed over because the product has a description
SkippedForDescription(r) == r.Status = "SKIPPED" /\ r.SKU # ""

\* C27: with FORCE_UPDATE=true in the environment the description updater
\* overwrites a product whose description is non-empty, as it does with
\* --force: no row is skipped because the product already has a description.
EnvForceOverwrites ==
  (script = "desc" /\ cfg.force_env) =>
    \A n \in 1..Len(rows) : ~SkippedForDescription(rows[n])

\* ------------------------------------------------------------------ C28
\* the channel description Linnworks holds for a key
Fetched(sku) == lw_pick_channel_desc(LwDescRows(sku), CHANNEL_SOURCE, CHANNEL_SUBSOURCE)

\* C28: the description written to Shopify for a key is the Linnworks channel
\* description fetched for that key, as it is: every body_html the description
\* updater sends equals the fetched text.
BodyUploadedAsIs ==
  script = "desc" =>
    \A n \in 1..Len(calls) :
      (calls[n].op = "SH_PUT_PRODUCT" /\ calls[n].field = "body_html")
        => calls[n].value = Fetched(calls[n].key)

\* ------------------------------------------------------------------ C29
\* where a key first stands in the column
FirstAt(key) == CHOOSE j \in 1..Len(rows) :
                  Strip(rows[j]) = key /\ \A h \in 1..(j - 1) : Strip(rows[h]) # key

\* C29: the key list read from the input holds every non-blank key of the
\* column exactly once, in the order of first occurrence.
KeyListUniqueInOrder ==
  (script \in Readers /\ pc = "read") =>
    /\ \A n \in 1..Len(skus) :
         skus[n] # Empty /\ \E j \in 1..Len(rows) : Strip(rows[j]) = skus[n]
    /\ \A j \in 1..Len(rows) :
         Strip(rows[j]) # Empty => \E n \in 1..Len(skus) : skus[n] = Strip(rows[j])
    /\ \A n \in 1..Len(skus), m \in 1..Len(skus) :
         n < m => skus[n] # skus[m] /\ FirstAt(skus[n]) < FirstAt(skus[m])

\* ------------------------------------------------------------------ C30
\* the status of the last tracker row of a (SKU, ProductID) pair
LatestStatus(sku, pid) ==
  LET of == { n \in 1..Len(tracker) : tracker[n].SKU = sku /\ tracker[n].ProductID = pid }
  IN tracker[CHOOSE n \in of : \A m \in of : m <= n].Status

\* C30: the update step takes a (SKU, ProductID) pair as a candidate only if
\* the latest tracker row of the pair is POPULATED or POPULATE_READY.
CandidatesAreLatestOpen ==
  [][ DU_RunUpdate =>
        \A n \in 1..Len(rows') :
          LatestStatus(rows'[n].SKU, rows'[n].ProductID) \in {"POPULATED", "POPULATE_READY"} ]_vars

\* ------------------------------------------------------------------ C31
\* the variants the lookup has seen that carry exactly the SKU asked for
ExactVariants ==
  { v \in { rows[n] : n \in 1..Len(rows) } \cup { tracker[n] : n \in 1..Len(tracker) } :
      Strip(v.sku) = skus[1] }

\* C31: the lookup of a variant by SKU returns a (product_id, variant_id) only
\* of a variant whose SKU is exactly the one asked for, and none when the
\* search returned no such variant.
OnlyExactVariantFound ==
  (script \in Finders /\ pc = "found") =>
    \/ buffer[1] = NoVariant /\ ExactVariants = {}
    \/ \E v \in ExactVariants : buffer[1] = << v.product_id, Vid(v) >>

\* ------------------------------------------------------------------ C32
\* C32: ensure_collection is find-or-create: after any sequence of live calls
\* the store holds at most one collection per title, and the calls made with
\* one title have returned one id.
OneCollectionPerTitle ==
  (script \in Ensurers /\ ~cfg.dry) =>
    /\ \A a \in 1..Len(rows), b \in 1..Len(rows) :
         a # b => TitleKey(rows[a].title) # TitleKey(rows[b].title)
    /\ \A a \in 1..Len(buffer), b \in 1..Len(buffer) :
         TitleKey(buffer[a].title) = TitleKey(buffer[b].title) => buffer[a].id = buffer[b].id

\* ------------------------------------------------------------------ C33
LinksOf(pid) == Cardinality({ k \in 1..Len(rows) : rows[k] = pid })

\* C33: attach_to_collection is idempotent: for a product that is linked
\* already the already-exists answer is swallowed and the call returns, the
\* product keeps exactly one link, and every other error answer is raised.
AttachIsIdempotent ==
  script \in Attachers =>
    /\ \A n \in 1..Len(buffer) :
         LET b == buffer[n] IN
         b.asked =>
           /\ (b.linked /\ b.answer \in { AlreadyExists, AlreadyTaken }) => b.ended = "returned"
           /\ (b.linked /\ b.ended = "returned") => LinksOf(b.pid) = 1
           /\ (b.answer.status >= 300 /\ b.answer \notin { AlreadyExists, AlreadyTaken })
                => b.ended = "raised"
    /\ \A pid \in 0..2 : LinksOf(pid) <= 1

\* a product is linked, attached again (the 422 is swallowed), and another
\* call has met an error that was raised
AttachedTwiceAndRaised ==
  /\ script \in Attachers
  /\ \E n \in 1..Len(buffer), m \in 1..Len(buffer), l \in 1..Len(buffer) :
       /\ n < m
       /\ buffer[n].pid = buffer[m].pid
       /\ buffer[n].answer = Created /\ buffer[n].asked
       /\ buffer[m].linked /\ buffer[m].answer = AlreadyExists /\ buffer[m].ended = "returned"
       /\ buffer[l].ended = "raised" /\ buffer[l].answer.status = 422
       /\ LinksOf(buffer[n].pid) = 1

\* ------------------------------------------------------------------ C34
\* the image POSTs a step adds to the calls
NewPosts == SelectSeq(SubSeq(calls', Len(calls) + 1, Len(calls')),
                      LAMBDA c : c.op = "SH_POST_IMAGE")

\* C34: upload_images_to_product uploads only images whose file name is not
\* on the product yet, and with e images on the product at most
\* max(0, limit - e) of them.
UploadsOnlyMissingWithinLimit ==
  [][ UI_Upload =>
        /\ Len(NewPosts) <= Max(0, IMAGE_LIMIT - Len(rows))
        /\ \A n \in 1..Len(NewPosts) :
             \A k \in 1..Len(rows) : rows[k].file # NewPosts[n].value[1] ]_vars

\* C34, second half alone: the number of uploads stays within the room left
UploadsWithinLimit ==
  [][ UI_Upload => Len(NewPosts) <= Max(0, IMAGE_LIMIT - Len(rows)) ]_vars

\* ------------------------------------------------------------------ C35
\* the step issues the reorder write
ReorderIssued == Len(SelectSeq(calls', LAMBDA c : c.op = "SH_PUT_IMAGE"))
                   > Len(SelectSeq(calls, LAMBDA c : c.op = "SH_PUT_IMAGE"))

\* the product of the SKU holds an image with the main file name, and the
\* image at position 1 does not have that name
MainImageMisplaced ==
  /\ ~world.bare
  /\ \E k \in 1..Len(rows) : infer_shopify_filename_from_src(rows[k].src) = skus[1]
  /\ infer_shopify_filename_from_src(rows[1].src) # skus[1]

\* C35 as stated: the reorder write is issued if and only if an image matches
\* the Linnworks main file name and is not at position 1 already.
ReorderIffMisplaced ==
  [][ FM_Fix => (ReorderIssued <=> MainImageMisplaced) ]_vars

\* C35: in a live run the reorder write is issued if and only if an image
\* matches the Linnworks main file name and is not at position 1 already, a
\* dry run issues none, and the run after a successful reorder issues none.
LiveReorderIffMisplaced ==
  [][ FM_Fix =>
        /\ ReorderIssued <=> (~cfg.dry /\ MainImageMisplaced)
        /\ (pc = "again" /\ buffer[1] = "ok") => ~ReorderIssued ]_vars

\* a first run that promoted the image from another place, and a second run
\* that found it first and wrote nothing
ReorderedOnceThenQuiet ==
  /\ script = "update_main_image" /\ pc = "done"
  /\ buffer = << "ok", "none" >>
  /\ rows[1].id # 1
  /\ infer_shopify_filename_from_src(rows[1].src) = skus[1]
  /\ Len(SelectSeq(calls, LAMBDA c : c.op = "SH_PUT_IMAGE")) = 1

\* ------------------------------------------------------------------ C36
\* the sleeps of req after the first to fifth retryable answer, in milliseconds
BackoffSchedule == << 500, 1000, 2000, 4000, 8000 >>

\* C36: one call of req sends at most RETRY_MAX_ATTEMPTS requests, all the
\* same; after a retryable status on an attempt before the last it sleeps
\* min(0.5 * 2^(a-1), 8.0) seconds and repeats, on the last attempt it raises,
\* and any other status of 300 or more raises at once.
ReqBoundedBackoff ==
  http.fn = "req" =>
    /\ RETRY_MAX_ATTEMPTS = 6 /\ RETRY_STATUS = {429, 500, 502, 503, 504}
    /\ Len(http.sent) <= RETRY_MAX_ATTEMPTS
    /\ \A n \in 1..Len(http.sent) : http.sent[n] = Request("req")
    /\ \A n \in 1..Len(http.answers) :
         LET a == http.answers[n] IN
         /\ (a \in {429, 500, 502, 503, 504} /\ n < 6)
              => Len(http.sleeps) >= n /\ http.sleeps[n] = BackoffSchedule[n]
         /\ (a \in {429, 500, 502, 503, 504} /\ n = 6)
              => http.phase = "raised" /\ Len(http.sleeps) = 5
         /\ (a \notin {429, 500, 502, 503, 504} /\ a >= 300)
              => http.phase = "raised" /\ n = Len(http.answers) /\ Len(http.sleeps) = n - 1
    /\ Len(http.sleeps) <= Len(http.answers)

\* req met six retryable answers: five sleeps of the schedule, then the raise
ReqGaveUpAfterSix ==
  /\ http.fn = "req" /\ http.phase = "raised"
  /\ Len(http.sent) = 6
  /\ \A n \in 1..6 : http.answers[n] \in RETRY_STATUS
  /\ http.sleeps = BackoffSchedule

\* ------------------------------------------------------------------ C37
\* a status of 400 or more that _try_post does not count as retryable
NotRetryable(a) == a >= 400 /\ a \notin {429, 500, 502, 503, 504}

\* C37: when the first answer to _try_post is a status of 400 or more that is
\* not retryable, it raises after that one request: no sleep, and no second
\* request with the same body encoding.
TryPostRaisesAtOnce ==
  (http.fn = "linnworks_fetch_by_sku" /\ Len(http.answers) >= 1
     /\ NotRetryable(http.answers[1])) =>
    /\ Len(http.answers) = 1 => http.sleeps = << >>
    /\ Len(http.sent) >= 2 => http.sent[2].enc # http.sent[1].enc

\* C37, second half alone: one call of _try_post sends at most `retries`
\* requests (the requests of one body encoding)
TryPostAtMostRetries ==
  http.fn = "linnworks_fetch_by_sku" =>
    \A e \in { "json", "form", "wrapped" } :
      Cardinality({ n \in 1..Len(http.sent) : http.sent[n].enc = e }) <= TRY_POST_RETRIES

\* ------------------------------------------------------------------ C38
\* the products without a description of the first k pages, in page order
RECURSIVE EmptyUpTo(_)
EmptyUpTo(k) ==
  IF k = 0 THEN << >>
  ELSE EmptyUpTo(k - 1)
       \o SelectSeq(rows[k], LAMBDA p : p.body = Empty \/ p.body = << WS >>)

\* C38: the scan of the products goes from page to page by the next link,
\* asks for the same page again after a 429, yields every product with an
\* empty description of every page once and in page order, and stops at the
\* page without a next link.
ScanYieldsEveryEmptyOnce ==
  http.fn = "sh_paginate_products_empty_desc" =>
    /\ Len(http.sent) >= 1 => http.sent[1] = 1
    /\ \A n \in 1..(Len(http.sent) - 1) :
         http.sent[n + 1] = IF http.answers[n] = 429 THEN http.sent[n] ELSE http.sent[n] + 1
    /\ buffer = EmptyUpTo(Cardinality({ n \in 1..Len(http.answers) : http.answers[n] = 200 }))
    /\ \A a \in 1..Len(buffer), b \in 1..Len(buffer) : a # b => buffer[a].id # buffer[b].id
    /\ pc = "done" => /\ http.sent[Len(http.sent)] = Len(rows)
                      /\ buffer = EmptyUpTo(Len(rows))
    /\ (pc = "scan" /\ http.sent # << >> /\ http.answers[Len(http.answers)] = 200)
         => http.sent[Len(http.sent)] < Len(rows)

\* a scan over three pages that was rate-limited on the way, passed over a
\* product with a description and yielded products of two pages
ScannedThreePagesWith429 ==
  /\ http.fn = "sh_paginate_products_empty_desc" /\ pc = "done"
  /\ Len(rows) = 3
  /\ \E n \in 1..Len(http.answers) : http.answers[n] = 429 /\ http.sent[n] = 2
  /\ \E k \in 1..3, j \in 1..2 : j <= Len(rows[k]) /\ rows[k][j].body = << "d" >>
  /\ \E a \in 1..Len(buffer), b \in 1..Len(buffer) : buffer[a].id < 20 /\ buffer[b].id > 30

\* ------------------------------------------------------------------ C39
\* the row was sent to the model in the current run
SentThisRun(j) == \E n \in 1..Len(calls) : calls[n].row = j /\ calls[n].run = run

\* C39: the job is resumable: a row whose output column held a non-empty
\* value other than the error marker when the run began is not sent to the
\* model, a row that held the marker is sent again, and a run over a file in
\* which every row has such a value makes no model call.
RunResumesFromFile ==
  script = "repeat_task" =>
    /\ \A j \in 1..Len(tracker) :
         (tracker[j].out # "" /\ tracker[j].out # "OLLAMA_CONNECTION_ERROR") => ~SentThisRun(j)
    /\ pc = "done" =>
         \A j \in 1..Len(tracker) : tracker[j].out = "OLLAMA_CONNECTION_ERROR" => SentThisRun(j)
    /\ (\A j \in 1..Len(tracker) : tracker[j].out \notin { "", "OLLAMA_CONNECTION_ERROR" })
         => \A n \in 1..Len(calls) : calls[n].run # run

\* a second run that sent a row holding the marker again and passed over a row
\* the first run had filled
ErrorRowSentAgain ==
  /\ script = "repeat_task" /\ pc = "done" /\ run = 2
  /\ \E j \in 1..Len(tracker), k \in 1..Len(tracker) :
       /\ tracker[j].out = "OLLAMA_CONNECTION_ERROR" /\ SentThisRun(j)
       /\ rows[j].out = "Specifications"
       /\ tracker[k].out = "Specifications" /\ ~SentThisRun(k)
       /\ \E n \in 1..Len(calls) : calls[n].row = k /\ calls[n].run = 1


====
